---------------------------- MODULE Spec2Model ----------------------------
(***************************************************************************)
(* A model of the ticket ingestion and clustering pipeline of              *)
(* product-issue-miner:                                                    *)
(*   - ZendeskClient._check_rate_limit  (the per-client throttle),         *)
(*   - ZendeskClient._request           (retry / backoff loop),            *)
(*   - ZendeskClient.paginate_search    (lazy page generator),             *)
(*   - SyncService.sync_tickets         (single-flight sync run),          *)
(*   - SyncService._upsert_ticket       (the tickets table),               *)
(*   - ClusteringService.cluster_issues, _find_matching_cluster,           *)
(*     _name_unnamed_clusters, update_cluster_trends,                      *)
(*     update_unique_customer_counts and merge_clusters,                   *)
(*   - BackgroundWorker and the endpoints that trigger tasks and syncs.    *)
(* Time is counted in whole seconds for the client and in whole days for   *)
(* the sync window and the clusters.  The specifications share the module; *)
(* each leaves the variables of the other components unchanged.            *)
(***************************************************************************)
EXTENDS Integers, Sequences, FiniteSets, TLC

VARIABLES
    \* ---- ZendeskClient throttle state (zendesk.py 52-55)
    request_count,      \* self._request_count
    window_elapsed,     \* now - self._rate_limit_window_start, in seconds, capped at WINDOW
    thr_pc,             \* "idle" | "sleeping": position of the _check_rate_limit caller
    thr_sleep,          \* sleep_time of the throttle sleep in progress (0: none)
    admitted,           \* history: requests let through since the last window reset
    thr_waits,          \* history: throttle sleeps taken inside the current _request call
    \* ---- one _request call (zendesk.py 141-218)
    req_pc,             \* "idle" | "loop" | "returned" | "raised"
    retries,            \* local retries
    backoff,            \* local backoff
    attempts,           \* history: number of self._client.request calls made
    sleeps,             \* history: durations of the asyncio.sleep calls made by _request
    served,             \* history: the responses the server gave, in order
    outcome,            \* "none" | "returned" | "ZendeskAPIError" | "ZendeskRateLimitError"
    result,             \* the value returned (a body) or "none"
    \* ---- SyncService (sync.py 35-38), one sync_tickets call, the generator, the store
    is_running,         \* self._is_running
    current_progress,   \* self._current_progress, as a tuple <<kind, value>>
    sync_pc,            \* "idle" | "window" | "search" | "batch" | "finish"
    backfill_days,      \* the argument: <<>> for None, <<n>> for the integer n
    start_date,         \* local start_date (in days), <<>> before it is chosen
    tickets_synced,     \* local tickets_synced
    errors,             \* local errors
    batch,              \* tickets of the yielded page not yet processed
    pg_page,            \* paginate_search: local page
    pg_next,            \* paginate_search: next_page of the response being yielded
    requested,          \* history: page numbers requested by this call's generator
    yielded,            \* history: tickets yielded by this call's generator, in order
    pages_served,       \* history: the pages the server answered with, in order
    db_tickets,         \* committed ticket rows (external ids)
    db_pending,         \* ticket rows written in the open transaction
    sync_state,         \* committed SyncState rows, in insertion order
    state_at_start,     \* history: sync_state as the current (or last) call found it
    now_day,            \* the clock, in days
    runs,               \* history: sync_tickets calls that passed the guard
    last_event,         \* history: name of the last step taken
    sync_result,        \* what the last finished call returned or raised
    \* ---- the tickets table under _upsert_ticket (sync.py 170-202)
    tickets,            \* the rows of the tickets table
    last_upsert,        \* history: per external id, the values of the upsert applied last
    \* ---- the help desk the client searches (sync.py 98, zendesk.py 366-418)
    upstream,           \* per ticket, the time of its last update upstream, in days
    \* ---- one call of ClusteringService._find_matching_cluster (clusterer.py 132-173)
    fm_issue,           \* the argument issue: its summary
    fm_clusters,        \* the argument clusters: the candidates, in order
    fm_result,          \* <<>> before the call returns, then <<position>> (0: None)
    \* ---- the issue and cluster tables and one cluster_issues pass (clusterer.py 42-130)
    issues,             \* extracted_issues rows, by id
    clusters,           \* issue_clusters rows, by id
    db_clusters,        \* issue_clusters rows as last committed
    cl_pc,              \* "idle" | "group" | "assign" | "naming" | "done" | "raised"
    grouped,            \* local grouped: the groups not yet processed
    cur_key,            \* the (category, subcategory) of the group being processed
    cur_issues,         \* the issues of that group not yet processed
    existing_clusters,  \* local existing_clusters: ids of the group's candidates
    issues_clustered,   \* local issues_clustered
    new_clusters_created, \* local new_clusters_created
    to_name,            \* _name_unnamed_clusters: the clusters not yet visited
    assigned,           \* history: the assignments made by the pass
    naming_log,         \* history: the naming service's answers, per visited cluster
    cl_result,          \* what the pass returned or raised
    \* ---- one update_cluster_trends pass (clusterer.py 217-267)
    tr_pc,              \* "idle" | "loop" | "done"
    tr_now,             \* local now, <<>> before it is read
    tr_clusters,        \* the active clusters not yet visited
    \* ---- merge_clusters and update_unique_customer_counts (clusterer.py 269-338)
    mt_tickets,         \* tickets rows, by id: the requester_org_name of each
    mt_issues,          \* extracted_issues rows as the open transaction sees them
    mt_clusters,        \* issue_clusters rows as the open transaction sees them
    mt_db,              \* the issue and cluster rows as last committed
    mt_pc,              \* "idle" | "reassigned" | "deactivated" | "recounted" | "counting"
    mt_call,            \* history: the current (or last) call and the rows it found
    mt_todo,            \* update_unique_customer_counts: the clusters not yet visited
    mt_result,          \* what the last call returned or raised
    \* ---- the BackgroundWorker singleton and its trigger endpoints (worker.py, tasks.py)
    current_task,       \* self._current_task: <<>> for None
    worker_status,      \* self._status
    wk_scheduled,       \* run_* calls handed to BackgroundTasks, not yet started
    wk_running,         \* run_* calls started and not yet finished
    wk_log,             \* history: what the triggers answered and the calls did
    \* ---- POST /sync/trigger (sync_new.py 17-106)
    sync_running,       \* the module's _sync_running
    sync_progress,      \* the module's _sync_progress
    tg_scheduled,       \* run_sync closures handed to BackgroundTasks, not yet started
    tg_running,         \* run_sync closures started and not yet finished
    tg_log,             \* history: the answers of the endpoint and the ends of the runs
    \* ---- the tickets table under the page loop of sync_tickets (sync.py 101-120)
    pending_rows,       \* ticket rows written in the open transaction, by external id
    stored_rows,        \* ticket rows as last committed, by external id
    tx_aborted,         \* the store has aborted the open transaction
    ticket_log,         \* history: what happened to each ticket of the call, in order
    \* ---- an observer of the throttle: one interval of WINDOW seconds
    sw_age,             \* seconds since the interval began, capped at WINDOW
    sw_count,           \* history: requests let through within the interval
    \* ---- the store as a second transaction sees it during a cluster_issues pass
    rc_issues,          \* extracted_issues rows as last committed
    rc_clusters,        \* issue_clusters rows as last committed
    rc_merged,          \* history: <<>>, or <<source_id, target_id>> of the merge committed
    \* ---- coroutines of one client inside _check_rate_limit (zendesk.py 87-118)
    co_pc,              \* per coroutine: "out" | "waiting" | "holding" | "sleeping"
    co_calls,           \* per coroutine: calls of _check_rate_limit begun
    lock_holder,        \* self._rate_limit_lock: the coroutine that holds it, or NoCaller
    lock_waiters,       \* self._rate_limit_lock: the coroutines waiting, in order
    co_window,          \* history: number of window resets so far
    co_log,             \* history: per call let through, the window and counter it found
    \* ---- cluster_issues and merge_clusters calls made one after the other
    ops_log             \* history: the calls that have ended, in order

thrVars == <<request_count, window_elapsed, thr_pc, thr_sleep, admitted, thr_waits>>
reqVars == <<req_pc, retries, backoff, attempts, sleeps, served, outcome, result>>
syncVars == <<is_running, current_progress, sync_pc, backfill_days, start_date,
              tickets_synced, errors, batch, pg_page, pg_next, requested, yielded,
              pages_served, db_tickets, db_pending, sync_state, state_at_start,
              now_day, runs, last_event, sync_result>>
upsertVars == <<tickets, last_upsert>>
matchVars == <<fm_issue, fm_clusters, fm_result>>
passVars == <<cl_pc, grouped, cur_key, cur_issues, existing_clusters, issues_clustered,
              new_clusters_created, to_name, assigned, naming_log, cl_result>>
clusterVars == <<issues, clusters, db_clusters, passVars>>
trendVars == <<tr_pc, tr_now, tr_clusters>>
maintVars == <<mt_tickets, mt_issues, mt_clusters, mt_db, mt_pc, mt_call, mt_todo, mt_result>>
workerVars == <<current_task, worker_status, wk_scheduled, wk_running, wk_log>>
triggerVars == <<sync_running, sync_progress, tg_scheduled, tg_running, tg_log>>
rowVars == <<pending_rows, stored_rows, tx_aborted, ticket_log>>
windowVars == <<sw_age, sw_count>>
raceVars == <<rc_issues, rc_clusters, rc_merged>>
lockVars == <<co_pc, co_calls, lock_holder, lock_waiters, co_window, co_log>>
lateVars == <<windowVars, raceVars, lockVars, ops_log>>
extraVars == <<maintVars, workerVars, triggerVars, rowVars, lateVars>>
otherVars == <<upsertVars, upstream, matchVars, clusterVars, trendVars, extraVars>>
vars == <<thrVars, reqVars, syncVars, otherVars>>

-----------------------------------------------------------------------------
(* Program constants of ZendeskClient *)
RATE_LIMIT == 700
MAX_RETRIES == 3
INITIAL_BACKOFF == 1
MAX_BACKOFF == 60
WINDOW == 60

(* Bounds of the model *)
MaxRetryAfter == 3
MaxPages == 2
MaxPerPage == 2
MaxBackfill == 2
MaxNow == 2
MaxRuns == 2
MaxTicketIds == 2
MaxVersion == 2
MaxUpstream == 2
MaxCandidates == 2
MaxIssues == 2
MaxTime == 2
MaxTrendIssues == 3
MaxMergeIssues == 3
MaxTasks == 3
MaxEvents == 5
MaxNamingIssues == 1
MaxObserved == 2
MaxRaceIssues == 2
MaxCalls == 2
MaxOps == 3
MaxOpsIssues == 2
MaxRangeIssues == 12

Min(a, b) == IF a < b THEN a ELSE b

-----------------------------------------------------------------------------
(* _check_rate_limit as pure functions of (self._request_count, elapsed)   *)

\* line 98: the window has passed
WindowPassed(el) == el >= WINDOW

\* line 104: budget exhausted mid-window
BudgetExhausted(cnt, el) == ~WindowPassed(el) /\ cnt >= RATE_LIMIT

\* line 106
SleepTime_WholeWindow(el) == WINDOW
SleepTime(el) == WINDOW - el

\* self._request_count when the call returns
CountAfterCheck(cnt, el) ==
    IF WindowPassed(el) THEN 0                  \* lines 99-101: reset and return
    ELSE IF cnt >= RATE_LIMIT THEN 0 + 1        \* lines 115, 118
    ELSE cnt + 1                                \* line 118

\* elapsed time of the window when the call returns
ElapsedAfterCheck(cnt, el) ==
    IF WindowPassed(el) THEN 0                  \* line 100
    ELSE IF cnt >= RATE_LIMIT THEN 0            \* line 116, after the sleep
    ELSE el

\* requests let through in the current window, after this call was let through
AdmittedAfterCheck(cnt, el, adm) ==
    IF WindowPassed(el) \/ cnt >= RATE_LIMIT THEN 1 ELSE adm + 1

-----------------------------------------------------------------------------
(* Initial values of the three components *)

ThrottleInit ==
    /\ request_count = 0            \* zendesk.py 53
    /\ window_elapsed = 0           \* zendesk.py 54
    /\ thr_pc = "idle"
    /\ thr_sleep = 0
    /\ admitted = 0
    /\ thr_waits = 0

RequestInit ==
    /\ req_pc = "idle"
    /\ retries = 0
    /\ backoff = INITIAL_BACKOFF
    /\ attempts = 0
    /\ sleeps = <<>>
    /\ served = <<>>
    /\ outcome = "none"
    /\ result = "none"

-----------------------------------------------------------------------------
(* SpecThrottle: calls of _check_rate_limit on one client, one at a time   *)
(* (the asyncio.Lock of line 93 is held for the whole call, the sleep      *)
(* included), with time passing between the calls.                         *)

\* a second passes while no call is inside _check_rate_limit
ThrottleTickStep ==
    /\ thr_pc = "idle"
    /\ window_elapsed < WINDOW
    /\ window_elapsed' = window_elapsed + 1
    /\ UNCHANGED <<request_count, thr_pc, thr_sleep, admitted, thr_waits>>

ThrottleTick == ThrottleTickStep /\ UNCHANGED <<reqVars, syncVars, otherVars>>

\* lines 98-101: the window has passed: reset and return
CheckWindowResetStep ==
    /\ thr_pc = "idle"
    /\ WindowPassed(window_elapsed)
    /\ request_count' = CountAfterCheck(request_count, window_elapsed)
    /\ window_elapsed' = ElapsedAfterCheck(request_count, window_elapsed)
    /\ admitted' = AdmittedAfterCheck(request_count, window_elapsed, admitted)
    /\ UNCHANGED <<thr_pc, thr_sleep, thr_waits>>

CheckWindowReset == CheckWindowResetStep /\ UNCHANGED <<reqVars, syncVars, otherVars>>

\* lines 104, 118: budget left: count the request and return
CheckAdmitStep ==
    /\ thr_pc = "idle"
    /\ ~WindowPassed(window_elapsed)
    /\ ~BudgetExhausted(request_count, window_elapsed)
    /\ request_count' = CountAfterCheck(request_count, window_elapsed)
    /\ window_elapsed' = ElapsedAfterCheck(request_count, window_elapsed)
    /\ admitted' = AdmittedAfterCheck(request_count, window_elapsed, admitted)
    /\ UNCHANGED <<thr_pc, thr_sleep, thr_waits>>

CheckAdmit == CheckAdmitStep /\ UNCHANGED <<reqVars, syncVars, otherVars>>

\* lines 104-112: budget exhausted mid-window: go to sleep, the lock held
CheckSleepStep ==
    /\ thr_pc = "idle"
    /\ BudgetExhausted(request_count, window_elapsed)
    /\ SleepTime(window_elapsed) > 0
    /\ thr_pc' = "sleeping"
    /\ thr_sleep' = SleepTime(window_elapsed)
    /\ UNCHANGED <<request_count, window_elapsed, admitted, thr_waits>>

CheckSleep == CheckSleepStep /\ UNCHANGED <<reqVars, syncVars, otherVars>>

\* lines 115-118: the sleep is over: reset the window, count the request
CheckWakeStep ==
    /\ thr_pc = "sleeping"
    /\ request_count' = CountAfterCheck(request_count, window_elapsed)
    /\ window_elapsed' = ElapsedAfterCheck(request_count, window_elapsed)
    /\ admitted' = AdmittedAfterCheck(request_count, window_elapsed, admitted)
    /\ thr_pc' = "idle"
    /\ thr_sleep' = 0
    /\ UNCHANGED thr_waits

CheckWake == CheckWakeStep /\ UNCHANGED <<reqVars, syncVars, otherVars>>

ThrottleNext ==
    \/ ThrottleTick
    \/ CheckWindowReset
    \/ CheckAdmit
    \/ CheckSleep
    \/ CheckWake

-----------------------------------------------------------------------------
(* SpecWindow: the throttle of SpecThrottle watched over one interval of   *)
(* WINDOW consecutive seconds.  The interval begins in a state the         *)
(* throttle can be in; sw_age is the time since it began and sw_count the  *)
(* number of calls of _check_rate_limit that returned, that is of requests *)
(* let through, before WINDOW seconds have passed.  The interval is        *)
(* followed for its first MaxObserved seconds.                             *)

Observing == sw_age < Min(MaxObserved, WINDOW)

\* `seconds` pass, then `passed` requests are let through
Observe(passed, seconds) ==
    /\ sw_age' = Min(sw_age + seconds, WINDOW)
    /\ sw_count' = IF sw_age + seconds < WINDOW THEN sw_count + passed ELSE sw_count

nonWindowVars == <<reqVars, syncVars, upsertVars, upstream, matchVars, clusterVars, trendVars,
                   maintVars, workerVars, triggerVars, rowVars, raceVars, lockVars, ops_log>>

\* a second passes
WindowTick ==
    /\ Observing
    /\ ThrottleTickStep
    /\ Observe(0, 1)
    /\ UNCHANGED nonWindowVars

\* a second passes after the throttle's window has passed
WindowLateTick ==
    /\ Observing
    /\ thr_pc = "idle"
    /\ window_elapsed = WINDOW
    /\ Observe(0, 1)
    /\ UNCHANGED <<thrVars, nonWindowVars>>

\* zendesk.py 98-101: the call resets the window and returns
WindowReset ==
    /\ Observing
    /\ CheckWindowResetStep
    /\ Observe(1, 0)
    /\ UNCHANGED nonWindowVars

\* zendesk.py 104, 118: the call counts its request and returns
WindowAdmit ==
    /\ Observing
    /\ CheckAdmitStep
    /\ Observe(1, 0)
    /\ UNCHANGED nonWindowVars

\* zendesk.py 104-112: the call goes to sleep
WindowSleep ==
    /\ Observing
    /\ CheckSleepStep
    /\ Observe(0, 0)
    /\ UNCHANGED nonWindowVars

\* zendesk.py 112-118: the call returns after its sleep
WindowWake ==
    /\ Observing
    /\ CheckWakeStep
    /\ Observe(1, thr_sleep)
    /\ UNCHANGED nonWindowVars

WindowNext ==
    \/ WindowTick
    \/ WindowLateTick
    \/ WindowReset
    \/ WindowAdmit
    \/ WindowSleep
    \/ WindowWake

-----------------------------------------------------------------------------
(* SpecLock: the coroutines of one event loop that call _check_rate_limit  *)
(* on the same client, as get_ticket and get_ticket_comments do under      *)
(* asyncio.gather (zendesk.py 344-348).  A coroutine runs from one await   *)
(* to the next without interruption; the awaits of the call are the        *)
(* acquisition of self._rate_limit_lock (93) and asyncio.sleep (112).  An  *)
(* asyncio.Lock is taken at once when it is free and nobody waits for it;  *)
(* otherwise the caller queues, and a release wakes the head of the queue. *)

Callers == {"get_ticket", "get_ticket_comments"}
NoCaller == "none"

\* asyncio.Lock.acquire: the lock can be taken without waiting
MayEnter_NoLock(holder, waiters) == TRUE
MayEnter(holder, waiters) == holder = NoCaller /\ waiters = <<>>

LockInit ==
    /\ co_pc = [c \in Callers |-> "out"]
    /\ co_calls = [c \in Callers |-> 0]
    /\ lock_holder = NoCaller
    /\ lock_waiters = <<>>
    /\ co_window = 0
    /\ co_log = <<>>

nonLockVars == <<thr_pc, thr_sleep, admitted, thr_waits, reqVars, syncVars, upsertVars,
                 upstream, matchVars, clusterVars, trendVars, maintVars, workerVars,
                 triggerVars, rowVars, windowVars, raceVars, ops_log>>

\* zendesk.py 94-104: what the call of coroutine c finds when it checks
Found(c) ==
    co_log' = Append(co_log, [caller |-> c, window |-> co_window, found |-> request_count])

\* the call of coroutine c returns, its request is let through; the lock is released
Return(c) ==
    /\ co_pc' = [co_pc EXCEPT ![c] = "out"]
    /\ lock_holder' = NoCaller
    /\ UNCHANGED <<co_calls, lock_waiters>>

\* a second passes while no coroutine sleeps inside the throttle
LockTick ==
    /\ \A c \in Callers : co_pc[c] # "sleeping"
    /\ window_elapsed < WINDOW
    /\ window_elapsed' = window_elapsed + 1
    /\ UNCHANGED <<request_count, lockVars, nonLockVars>>

\* zendesk.py 93: coroutine c calls _check_rate_limit and takes the lock or queues
CallCheck(c) ==
    /\ co_pc[c] = "out"
    /\ co_calls[c] < MaxCalls
    /\ co_calls' = [co_calls EXCEPT ![c] = @ + 1]
    /\ IF MayEnter(lock_holder, lock_waiters)
       THEN /\ co_pc' = [co_pc EXCEPT ![c] = "holding"]
            /\ lock_holder' = c
            /\ UNCHANGED lock_waiters
       ELSE /\ co_pc' = [co_pc EXCEPT ![c] = "waiting"]
            /\ lock_waiters' = Append(lock_waiters, c)
            /\ UNCHANGED lock_holder
    /\ UNCHANGED <<request_count, window_elapsed, co_window, co_log, nonLockVars>>

\* zendesk.py 93: the head of the queue is woken by a release and takes the lock
WaiterEnters(c) ==
    /\ co_pc[c] = "waiting"
    /\ lock_holder = NoCaller
    /\ Head(lock_waiters) = c
    /\ co_pc' = [co_pc EXCEPT ![c] = "holding"]
    /\ lock_holder' = c
    /\ lock_waiters' = Tail(lock_waiters)
    /\ UNCHANGED <<request_count, window_elapsed, co_calls, co_window, co_log, nonLockVars>>

\* zendesk.py 94-101: the window has passed: reset and return
LockedReset(c) ==
    /\ co_pc[c] = "holding"
    /\ WindowPassed(window_elapsed)
    /\ request_count' = CountAfterCheck(request_count, window_elapsed)
    /\ window_elapsed' = ElapsedAfterCheck(request_count, window_elapsed)
    /\ co_window' = co_window + 1
    /\ Found(c)
    /\ Return(c)
    /\ UNCHANGED nonLockVars

\* zendesk.py 104, 118: budget left: count the request and return
LockedAdmit(c) ==
    /\ co_pc[c] = "holding"
    /\ ~WindowPassed(window_elapsed)
    /\ ~BudgetExhausted(request_count, window_elapsed)
    /\ request_count' = CountAfterCheck(request_count, window_elapsed)
    /\ Found(c)
    /\ Return(c)
    /\ UNCHANGED <<window_elapsed, co_window, nonLockVars>>

\* zendesk.py 104-112: budget exhausted: sleep, the lock still held
LockedSleep(c) ==
    /\ co_pc[c] = "holding"
    /\ BudgetExhausted(request_count, window_elapsed)
    /\ co_pc' = [co_pc EXCEPT ![c] = "sleeping"]
    /\ Found(c)
    /\ UNCHANGED <<request_count, window_elapsed, co_calls, lock_holder, lock_waiters,
                   co_window, nonLockVars>>

\* zendesk.py 112-118: the sleep is over: reset the window, count the request
LockedWake(c) ==
    /\ co_pc[c] = "sleeping"
    /\ request_count' = 0 + 1
    /\ window_elapsed' = 0
    /\ co_window' = co_window + 1
    /\ Return(c)
    /\ UNCHANGED <<co_log, nonLockVars>>

LockNext ==
    \/ LockTick
    \/ \E c \in Callers : CallCheck(c)
    \/ \E c \in Callers : WaiterEnters(c)
    \/ \E c \in Callers : LockedReset(c)
    \/ \E c \in Callers : LockedAdmit(c)
    \/ \E c \in Callers : LockedSleep(c)
    \/ \E c \in Callers : LockedWake(c)

-----------------------------------------------------------------------------
(* SpecRequest: one call of ZendeskClient._request.  Each action is one    *)
(* iteration of the while loop of lines 147-216: the throttle check, the   *)
(* HTTP attempt and the handling of what the server answered.              *)

\* What self._client.request can produce: a response (status, Retry-After
\* header as a sequence of zero or one integer, body) or a RequestError.
Bodies == {"b1", "b2"}
RetryAfterHeaders == {<<>>} \cup {<<r>> : r \in 1..MaxRetryAfter}
Resp(k, st, ra, b) == [kind |-> k, status |-> st, retry_after |-> ra, body |-> b]
RateLimitedResponses == {Resp("http", 429, ra, "none") : ra \in RetryAfterHeaders}
ServerErrorResponses == {Resp("http", st, <<>>, "none") : st \in {500, 503}}
ClientErrorResponses == {Resp("http", st, <<>>, "none") : st \in {400, 404}}
SuccessResponses == {Resp("http", 200, <<>>, b) : b \in Bodies}
RequestErrors == {Resp("request_error", 0, <<>>, "none")}

\* line 157: int(response.headers.get("Retry-After", backoff))
RetryAfter_IgnoresHeader(resp, bo) == bo
RetryAfter(resp, bo) == IF resp.retry_after = <<>> THEN bo ELSE resp.retry_after[1]

\* lines 187, 215
NextBackoff_Constant(bo) == bo
NextBackoff(bo) == Min(bo * 2, MAX_BACKOFF)

\* lines 163, 179, 208: no retry is left
RetriesExhausted_OffByOne(r) == r > MAX_RETRIES
RetriesExhausted(r) == r >= MAX_RETRIES

\* line 164: what a 429 raises when no retry is left
RateLimitExhaustedError_Generic == "ZendeskAPIError"
RateLimitExhaustedError == "ZendeskRateLimitError"

\* line 150: the throttle check that opens every iteration; a throttle sleep
\* is taken inside it (the window restarts when it ends)
ThrottleInRequest ==
    /\ request_count' = CountAfterCheck(request_count, window_elapsed)
    /\ admitted' = AdmittedAfterCheck(request_count, window_elapsed, admitted)
    /\ thr_waits' = IF BudgetExhausted(request_count, window_elapsed)
                    THEN thr_waits + 1 ELSE thr_waits
    /\ thr_sleep' = IF BudgetExhausted(request_count, window_elapsed)
                    THEN SleepTime(window_elapsed) ELSE thr_sleep
    /\ UNCHANGED thr_pc

\* the window's elapsed time after the check and a sleep of d seconds
ElapsedAfter(d) == Min(ElapsedAfterCheck(request_count, window_elapsed) + d, WINDOW)

\* line 147: the loop goes round again while retries <= MAX_RETRIES
LoopContinues(r) == r <= MAX_RETRIES

\* asyncio.sleep(d); retries += 1; continue.  When the loop condition of
\* line 147 then fails, control reaches the raise of line 218.
SleepAndRetry(d, bo) ==
    /\ sleeps' = Append(sleeps, d)
    /\ window_elapsed' = ElapsedAfter(d)
    /\ retries' = retries + 1
    /\ backoff' = bo
    /\ req_pc' = IF LoopContinues(retries + 1) THEN "loop" ELSE "raised"
    /\ outcome' = IF LoopContinues(retries + 1) THEN outcome ELSE "ZendeskAPIError"
    /\ UNCHANGED result

\* raise exc out of _request
Raise(exc) ==
    /\ req_pc' = "raised"
    /\ outcome' = exc
    /\ window_elapsed' = ElapsedAfter(0)
    /\ UNCHANGED <<sleeps, retries, backoff, result>>

\* lines 141-145
StartRequest ==
    /\ req_pc = "idle"
    /\ req_pc' = "loop"
    /\ retries' = 0
    /\ backoff' = INITIAL_BACKOFF
    /\ UNCHANGED <<attempts, sleeps, served, outcome, result>>
    /\ UNCHANGED <<thrVars, syncVars, otherVars>>

\* lines 147-153, common to every iteration
Attempt(resp) ==
    /\ req_pc = "loop"
    /\ LoopContinues(retries)
    /\ ThrottleInRequest
    /\ attempts' = attempts + 1
    /\ served' = Append(served, resp)
    /\ UNCHANGED <<syncVars, otherVars>>

\* lines 156-170
AttemptRateLimited_Uncounted ==
    \E resp \in RateLimitedResponses :
        /\ Attempt(resp)
        /\ sleeps' = Append(sleeps, RetryAfter(resp, backoff))
        /\ window_elapsed' = ElapsedAfter(RetryAfter(resp, backoff))
        /\ UNCHANGED <<retries, backoff, req_pc, outcome, result>>
AttemptRateLimited ==
    \E resp \in RateLimitedResponses :
        /\ Attempt(resp)
        /\ IF RetriesExhausted(retries)
           THEN Raise(RateLimitExhaustedError)
           ELSE SleepAndRetry(RetryAfter(resp, backoff), backoff)

\* lines 173-188
AttemptServerError ==
    \E resp \in ServerErrorResponses :
        /\ Attempt(resp)
        /\ IF RetriesExhausted(retries)
           THEN Raise("ZendeskAPIError")
           ELSE SleepAndRetry(backoff, NextBackoff(backoff))

\* lines 191, 196-203: raise_for_status raises, wrapped in ZendeskAPIError
AttemptClientError_Retried ==
    \E resp \in ClientErrorResponses :
        /\ Attempt(resp)
        /\ IF RetriesExhausted(retries)
           THEN Raise("ZendeskAPIError")
           ELSE SleepAndRetry(backoff, NextBackoff(backoff))
AttemptClientError ==
    \E resp \in ClientErrorResponses :
        /\ Attempt(resp)
        /\ Raise("ZendeskAPIError")

\* lines 191-194
AttemptSuccess ==
    \E resp \in SuccessResponses :
        /\ Attempt(resp)
        /\ req_pc' = "returned"
        /\ outcome' = "returned"
        /\ result' = resp.body
        /\ window_elapsed' = ElapsedAfter(0)
        /\ UNCHANGED <<sleeps, retries, backoff>>

\* lines 205-216: the transport raised httpx.RequestError
AttemptRequestError ==
    \E resp \in RequestErrors :
        /\ Attempt(resp)
        /\ IF RetriesExhausted(retries)
           THEN Raise("ZendeskAPIError")
           ELSE SleepAndRetry(backoff, NextBackoff(backoff))

RequestNext ==
    \/ StartRequest
    \/ AttemptRateLimited
    \/ AttemptServerError
    \/ AttemptClientError
    \/ AttemptSuccess
    \/ AttemptRequestError

-----------------------------------------------------------------------------
(* SpecSync: sync_tickets calls on one SyncService instance.  A call is    *)
(* cut at its await points; the client's calls appear by their outcome (a  *)
(* result or a raised error), the store by its committed rows and the rows *)
(* written in the open transaction.                                        *)

\* the argument backfill_days: None or an integer
BackfillArgs == {<<>>} \cup {<<n>> : n \in 0..MaxBackfill}

\* the i-th ticket of the server's page p
TicketId(p, i) == (p - 1) * MaxPerPage + i
PageResults(p, n) == [i \in 1..n |-> TicketId(p, i)]

\* a row written by _update_sync_state (sync.py 211-216)
SyncStateRow(now, synced) ==
    [last_ticket_updated_at |-> now, tickets_synced |-> synced,
     issues_extracted |-> 0, sync_completed_at |-> now]

\* the store a service can be constructed over: no run yet, or one earlier run
InitialTables == {<<>>, <<SyncStateRow(0, 0)>>}

\* sync.py 57-61: order_by(sync_completed_at.desc()).limit(1); the store
\* picks any row among those with the latest completion time
LastSyncTimestamps(table) ==
    IF table = <<>> THEN {<<>>}
    ELSE {<<table[i].last_ticket_updated_at>> :
            i \in {j \in 1..Len(table) :
                     \A k \in 1..Len(table) :
                        table[k].sync_completed_at <= table[j].sync_completed_at}}

\* sync.py 87: `if backfill_days:` (the truth value of the argument)
BackfillGiven(bf) == bf # <<>> /\ bf[1] # 0

\* sync.py 87-94, given what get_last_sync_timestamp returned
StartDate(bf, last, now) ==
    IF BackfillGiven(bf) THEN now - bf[1]
    ELSE IF last # <<>> THEN last[1]
    ELSE now - 1

\* sync.py 77-78: the flag and the progress a rejected call leaves behind
\* (the raise is outside the try, so the finally of 128-130 does not run)
RunningAfterReject_InsideTry == FALSE
RunningAfterReject == is_running
ProgressAfterReject == current_progress

SyncInit ==
    /\ is_running = FALSE                 \* sync.py 37
    /\ current_progress = <<"None">>      \* sync.py 38
    /\ sync_pc = "idle"
    /\ backfill_days = <<>>
    /\ start_date = <<>>
    /\ tickets_synced = 0
    /\ errors = 0
    /\ batch = <<>>
    /\ pg_page = 1
    /\ pg_next = FALSE
    /\ requested = <<>>
    /\ yielded = <<>>
    /\ pages_served = <<>>
    /\ db_tickets = {}
    /\ db_pending = {}
    /\ sync_state \in InitialTables
    /\ state_at_start = sync_state
    /\ now_day = 0
    /\ runs = 0
    /\ last_event = "init"
    /\ sync_result = <<"none">>

\* a day passes.  The clock is read at sync.py 88/94 and 212-215 only, so a
\* day that passes elsewhere in a call is the same as one passing before the
\* call or just before _update_sync_state.
SyncTick ==
    /\ sync_pc \in {"idle", "finish"}
    /\ now_day < MaxNow
    /\ now_day' = now_day + 1
    /\ last_event' = "tick"
    /\ UNCHANGED <<is_running, current_progress, sync_pc, backfill_days, start_date,
                   tickets_synced, errors, batch, pg_page, pg_next, requested, yielded,
                   pages_served, db_tickets, db_pending, sync_state, runs, sync_result>>
    /\ UNCHANGED <<thrVars, reqVars, otherVars>>
    /\ UNCHANGED state_at_start

\* sync.py 77-83: the guard passes
SyncStart ==
    \E bf \in BackfillArgs :
        /\ ~is_running
        /\ runs < MaxRuns
        /\ is_running' = TRUE
        /\ current_progress' = <<"Starting">>
        /\ tickets_synced' = 0
        /\ errors' = 0
        /\ backfill_days' = bf
        /\ start_date' = <<>>
        /\ sync_pc' = "window"
        /\ batch' = <<>>
        /\ pg_page' = 1
        /\ pg_next' = FALSE
        /\ requested' = <<>>
        /\ yielded' = <<>>
        /\ pages_served' = <<>>
        /\ runs' = runs + 1
        /\ last_event' = "start"
        /\ sync_result' = <<"none">>
        /\ state_at_start' = sync_state
        /\ UNCHANGED <<db_tickets, db_pending, sync_state, now_day>>
        /\ UNCHANGED <<thrVars, reqVars, otherVars>>

\* sync.py 77-78: a call arrives while an earlier one is in flight
SyncRejected ==
    /\ is_running
    /\ is_running' = RunningAfterReject
    /\ current_progress' = ProgressAfterReject
    /\ last_event' = "rejected"
    /\ UNCHANGED <<sync_pc, backfill_days, start_date, tickets_synced, errors, batch,
                   pg_page, pg_next, requested, yielded, pages_served, db_tickets,
                   db_pending, sync_state, now_day, runs, sync_result>>
    /\ UNCHANGED <<thrVars, reqVars, otherVars>>
    /\ UNCHANGED state_at_start

\* sync.py 86-98 and paginate_search 389-390
DetermineStart ==
    /\ sync_pc = "window"
    /\ \E last \in LastSyncTimestamps(sync_state) :
          start_date' = <<StartDate(backfill_days, last, now_day)>>
    /\ sync_pc' = "search"
    /\ last_event' = "window"
    /\ UNCHANGED <<is_running, current_progress, backfill_days, tickets_synced, errors,
                   batch, pg_page, pg_next, requested, yielded, pages_served, db_tickets,
                   db_pending, sync_state, now_day, runs, sync_result>>
    /\ UNCHANGED <<thrVars, reqVars, otherVars>>
    /\ UNCHANGED state_at_start

\* what the server answers a search for page p with: up to MaxPerPage results
\* on the pages it holds, nothing beyond them, and its next_page signal
ServerPages(p) ==
    {[results |-> PageResults(p, n), next_page |-> nx] :
        n \in (IF p <= MaxPages THEN 0..MaxPerPage ELSE {0}), nx \in BOOLEAN}

\* zendesk.py 399-401: `if not results: break`
PageEmpty(resp) == resp.results = <<>>

\* zendesk.py 412-416: the generator goes on to the next page
GoesOn_FirstPageOnly(nx) == FALSE
GoesOn(nx) == nx
NextPage(p) == p + 1

\* sync.py 128-130: the finally clause
Finally_OnReturnOnly ==
    /\ is_running' = (sync_pc # "finish")
    /\ current_progress' = IF sync_pc = "finish" THEN <<"None">> ELSE current_progress
Finally ==
    /\ is_running' = FALSE
    /\ current_progress' = <<"None">>

\* zendesk.py 392-409: the generator requests a page; an empty page ends it
\* (sync.py 101 leaves the loop), a non-empty page is yielded to sync.py 102
SearchStep(resp) ==
    /\ sync_pc = "search"
    /\ pages_served' = Append(pages_served, resp)
    /\ IF PageEmpty(resp)
       THEN /\ sync_pc' = "finish"
            /\ UNCHANGED <<batch, yielded, pg_next>>
       ELSE /\ sync_pc' = "batch"
            /\ batch' = resp.results
            /\ yielded' = yielded \o resp.results
            /\ pg_next' = resp.next_page
    /\ requested' = Append(requested, pg_page)
    /\ last_event' = "search"
    /\ UNCHANGED <<is_running, current_progress, backfill_days, start_date,
                   tickets_synced, errors, pg_page, db_tickets, db_pending,
                   sync_state, now_day, runs, sync_result>>
    /\ UNCHANGED state_at_start

SearchPage ==
    /\ \E resp \in ServerPages(pg_page) : SearchStep(resp)
    /\ UNCHANGED <<thrVars, reqVars, otherVars>>

\* zendesk.py 393 raising out of _request: nothing catches it in sync.py 101,
\* so the call ends through the finally clause
SearchFails ==
    /\ sync_pc = "search"
    /\ \E exc \in {"ZendeskAPIError", "ZendeskRateLimitError"} :
          sync_result' = <<"raised", exc>>
    /\ requested' = Append(requested, pg_page)
    /\ Finally
    /\ sync_pc' = "idle"
    /\ last_event' = "search_failed"
    /\ UNCHANGED <<backfill_days, start_date, tickets_synced, errors, batch, pg_page,
                   pg_next, yielded, pages_served, db_tickets, db_pending,
                   sync_state, now_day, runs>>
    /\ UNCHANGED <<thrVars, reqVars, otherVars>>
    /\ UNCHANGED state_at_start

\* sync.py 113-116: the except clause of one ticket
CountError_Swallowed ==
    UNCHANGED <<errors, tickets_synced, db_pending>>
CountError ==
    /\ errors' = errors + 1
    /\ UNCHANGED <<tickets_synced, db_pending>>

\* sync.py 103-111: one ticket fetched and upserted
ProcessTicketStep ==
    /\ sync_pc = "batch"
    /\ batch # <<>>
    /\ current_progress' = <<"Processing", Head(batch)>>
    /\ db_pending' = db_pending \cup {Head(batch)}
    /\ tickets_synced' = tickets_synced + 1
    /\ batch' = Tail(batch)
    /\ last_event' = "ticket"
    /\ UNCHANGED <<is_running, sync_pc, backfill_days, start_date, errors, pg_page,
                   pg_next, requested, yielded, pages_served, db_tickets, sync_state,
                   now_day, runs, sync_result>>
    /\ UNCHANGED state_at_start

ProcessTicket ==
    /\ ProcessTicketStep
    /\ UNCHANGED <<thrVars, reqVars, otherVars>>

\* sync.py 107 raises (get_ticket_with_comments), caught at 113
TicketFetchFailsStep ==
    /\ sync_pc = "batch"
    /\ batch # <<>>
    /\ current_progress' = <<"Processing", Head(batch)>>
    /\ CountError
    /\ batch' = Tail(batch)
    /\ last_event' = "fetch_failed"
    /\ UNCHANGED <<is_running, sync_pc, backfill_days, start_date, pg_page,
                   pg_next, requested, yielded, pages_served, db_tickets, sync_state,
                   now_day, runs, sync_result>>
    /\ UNCHANGED state_at_start

TicketFetchFails ==
    /\ TicketFetchFailsStep
    /\ UNCHANGED <<thrVars, reqVars, otherVars>>

\* sync.py 110 raises (_upsert_ticket), caught at 113
TicketUpsertFailsStep ==
    /\ sync_pc = "batch"
    /\ batch # <<>>
    /\ current_progress' = <<"Processing", Head(batch)>>
    /\ CountError
    /\ batch' = Tail(batch)
    /\ last_event' = "upsert_failed"
    /\ UNCHANGED <<is_running, sync_pc, backfill_days, start_date, pg_page,
                   pg_next, requested, yielded, pages_served, db_tickets, sync_state,
                   now_day, runs, sync_result>>
    /\ UNCHANGED state_at_start

TicketUpsertFails ==
    /\ TicketUpsertFailsStep
    /\ UNCHANGED <<thrVars, reqVars, otherVars>>

\* sync.py 119-120, then the generator resumes at zendesk.py 412-416
CommitBatch ==
    /\ sync_pc = "batch"
    /\ batch = <<>>
    /\ db_tickets' = db_tickets \cup db_pending
    /\ db_pending' = {}
    /\ current_progress' = <<"Synced", tickets_synced>>
    /\ IF GoesOn(pg_next)
       THEN /\ pg_page' = NextPage(pg_page)
            /\ sync_pc' = "search"
       ELSE /\ sync_pc' = "finish"
            /\ UNCHANGED pg_page
    /\ last_event' = "commit"
    /\ UNCHANGED <<is_running, backfill_days, start_date, tickets_synced, errors, batch,
                   pg_next, requested, yielded, pages_served, sync_state, now_day,
                   runs, sync_result>>
    /\ UNCHANGED <<thrVars, reqVars, otherVars>>
    /\ UNCHANGED state_at_start

\* sync.py 217-218: self.db.add(sync_state), commit
AddSyncState_Overwrite(table, row) ==
    IF table = <<>> THEN <<row>> ELSE [table EXCEPT ![Len(table)] = row]
AddSyncState(table, row) == Append(table, row)

\* sync.py 123-130 and _update_sync_state 211-218
UpdateSyncState ==
    /\ sync_pc = "finish"
    /\ sync_state' = AddSyncState(sync_state, SyncStateRow(now_day, tickets_synced))
    /\ sync_result' = <<"returned", tickets_synced, errors>>
    /\ Finally
    /\ sync_pc' = "idle"
    /\ last_event' = "returned"
    /\ UNCHANGED <<backfill_days, start_date, tickets_synced, errors, batch, pg_page,
                   pg_next, requested, yielded, pages_served, db_tickets, db_pending,
                   now_day, runs>>
    /\ UNCHANGED <<thrVars, reqVars, otherVars>>
    /\ UNCHANGED state_at_start

SyncNext ==
    \/ SyncTick
    \/ SyncStart
    \/ SyncRejected
    \/ DetermineStart
    \/ SearchPage
    \/ SearchFails
    \/ ProcessTicket
    \/ TicketFetchFails
    \/ TicketUpsertFails
    \/ CommitBatch
    \/ UpdateSyncState

-----------------------------------------------------------------------------
(* SpecUpsert: the statement of _upsert_ticket executed against the tickets *)
(* table by sync runs.  The store executes one statement at a time on a    *)
(* row (the unique index on zendesk_ticket_id makes a second writer wait). *)
(* A row is [zendesk_ticket_id, set_, zendesk_org_id]: set_ stands for the *)
(* columns of the set_ dictionary (sync.py 187-199), which are written     *)
(* together; zendesk_org_id is written by the insert only (sync.py 178);   *)
(* ticket_created_at, also insert-only, does not change upstream.          *)

TicketIds == 1..MaxTicketIds
Versions == 1..MaxVersion
Orgs == {"org_a", "org_b"}
Writers == {"run1", "run2"}

\* the values of one statement (sync.py 170-184)
UpsertValues ==
    [zendesk_ticket_id : TicketIds, set_ : Versions, zendesk_org_id : Orgs]

\* sync.py 185-199: what the statement does to the row it conflicts with
OnConflict_DoNothing(row, values) == row
OnConflictDoUpdate(row, values) == [row EXCEPT !.set_ = values.set_]

\* sync.py 170-202: insert(Ticket).values(...).on_conflict_do_update(
\* index_elements=['zendesk_ticket_id'], ...)
Conflicts(table, values) ==
    {r \in table : r.zendesk_ticket_id = values.zendesk_ticket_id}
UpsertInto(table, values) ==
    IF Conflicts(table, values) = {}
    THEN table \cup {values}
    ELSE {IF r \in Conflicts(table, values) THEN OnConflictDoUpdate(r, values) ELSE r :
            r \in table}

UpsertInit ==
    /\ tickets = {}
    /\ last_upsert = [id \in TicketIds |-> <<>>]

\* one sync run executes the statement for one ticket
UpsertTicket ==
    \E w \in Writers, values \in UpsertValues :
        /\ tickets' = UpsertInto(tickets, values)
        /\ last_upsert' = [last_upsert EXCEPT ![values.zendesk_ticket_id] =
                              <<[writer |-> w, values |-> values]>>]
        /\ UNCHANGED <<thrVars, reqVars, syncVars, upstream, matchVars, clusterVars, trendVars,
                       extraVars>>

UpsertNext == UpsertTicket

-----------------------------------------------------------------------------
(* SpecWatermark: sync_tickets calls against a help desk whose tickets are *)
(* updated while the calls run.  The search answers from the tickets as    *)
(* they are when a page is requested (query `updated>start_date`, sync.py  *)
(* 98); get_ticket_with_comments (sync.py 107) reads a ticket as it is     *)
(* when it is processed.  No request fails in this specification.          *)

UpstreamIds == 1..MaxUpstream

UpstreamInit == upstream = [t \in UpstreamIds |-> 0]


\* the ids of a set in ascending order
RECURSIVE SortedIds(_)
SortedIds(ids) ==
    IF ids = {} THEN <<>>
    ELSE LET m == CHOOSE x \in ids : \A y \in ids : x <= y
         IN  <<m>> \o SortedIds(ids \ {m})

\* sync.py 98: the tickets the query `updated>start_date` matches now
Matching(start) == SortedIds({t \in UpstreamIds : upstream[t] > start})

\* zendesk.py 392-397, 412: page p of the matching tickets and its next_page
UpstreamPage(p, start) ==
    LET all == Matching(start)
        lo == (p - 1) * MaxPerPage + 1
        hi == Min(p * MaxPerPage, Len(all))
    IN  [results |-> SubSeq(all, lo, hi), next_page |-> p * MaxPerPage < Len(all)]

\* a ticket is updated upstream
UpstreamUpdate ==
    \E t \in UpstreamIds :
        /\ upstream[t] # now_day
        /\ upstream' = [upstream EXCEPT ![t] = now_day]
        /\ last_event' = "upstream_update"
        /\ UNCHANGED <<is_running, current_progress, sync_pc, backfill_days, start_date,
                       tickets_synced, errors, batch, pg_page, pg_next, requested,
                       yielded, pages_served, db_tickets, db_pending, sync_state,
                       state_at_start, now_day, runs, sync_result>>
        /\ UNCHANGED <<thrVars, reqVars, upsertVars, matchVars, clusterVars, trendVars,
                       extraVars>>

\* zendesk.py 392-409 against this help desk
SearchUpstream ==
    /\ start_date # <<>>
    /\ SearchStep(UpstreamPage(pg_page, start_date[1]))
    /\ UNCHANGED <<thrVars, reqVars, otherVars>>

\* sync.py 107-111: the ticket is read as it is now and upserted
FetchAndUpsert ==
    /\ ProcessTicketStep
    /\ LET values == [zendesk_ticket_id |-> Head(batch), set_ |-> upstream[Head(batch)],
                      zendesk_org_id |-> "org_a"]
       IN  /\ tickets' = UpsertInto(tickets, values)
           /\ last_upsert' = [last_upsert EXCEPT ![Head(batch)] =
                                 <<[writer |-> "run1", values |-> values]>>]
    /\ UNCHANGED <<thrVars, reqVars, upstream, matchVars, clusterVars, trendVars, extraVars>>

WatermarkNext ==
    \/ SyncTick
    \/ SyncStart
    \/ DetermineStart
    \/ SearchUpstream
    \/ FetchAndUpsert
    \/ CommitBatch
    \/ UpdateSyncState
    \/ UpstreamUpdate

-----------------------------------------------------------------------------
(* Text.  A string is the sequence of its whitespace-separated tokens; a    *)
(* token is [w, n]: the first n characters of the word w.  A summary holds *)
(* whole words separated by single spaces; slicing a string can leave a    *)
(* cut word as its last token.  No word of the vocabulary is a proper      *)
(* prefix of another, so tokens are equal exactly when their strings are.  *)

Max(a, b) == IF a > b THEN a ELSE b

\* the number of characters of each word of the vocabulary
Chars ==
    [w \in {"New:", "new:", "on", "to"} |-> IF w \in {"on", "to"} THEN 2 ELSE 4]
    @@ [w \in {"app", "not", "Tax", "tax", "for"} |-> 3]
    @@ [w \in {"error", "fails", "staff", "after"} |-> 5]
    @@ [w \in {"button", "broken", "issues", "export", "update"} |-> 6]
    @@ [w \in {"Android", "android", "working", "payroll"} |-> 7]
    @@ [w \in {"Clock-in", "clock-in", "salaried", "failures"} |-> 8]
    @@ [w \in {"Timesheet", "timesheet"} |-> 9]
    @@ [w \in {"Geofencing", "geofencing"} |-> 10]
    @@ [w \in {"calculation"} |-> 11]
    @@ [w \in {"PAYROLL:"} |-> 8]
    @@ [w \in {"TIME_AND_ATTENDANCE:"} |-> 20]

Tok(w) == [w |-> w, n |-> Chars[w]]
Text(ws) == [i \in 1..Len(ws) |-> Tok(ws[i])]

\* str.lower(), word by word
LowerWord(w) ==
    CASE w = "New:" -> "new:"
      [] w = "Tax" -> "tax"
      [] w = "Android" -> "android"
      [] w = "Clock-in" -> "clock-in"
      [] w = "Timesheet" -> "timesheet"
      [] w = "Geofencing" -> "geofencing"
      [] w = "PAYROLL:" -> "payroll:"
      [] w = "TIME_AND_ATTENDANCE:" -> "time_and_attendance:"
      [] OTHER -> w
Lower(text) == [i \in 1..Len(text) |-> [w |-> LowerWord(text[i].w), n |-> text[i].n]]

\* set(str.split())
Split(text) == {text[i] : i \in 1..Len(text)}

\* s[:k]
RECURSIVE Slice(_, _)
Slice(text, k) ==
    IF text = <<>> \/ k <= 0 THEN <<>>
    ELSE IF Head(text).n <= k
         THEN <<Head(text)>> \o Slice(Tail(text), k - Head(text).n - 1)
         ELSE <<[w |-> Head(text).w, n |-> k]>>

-----------------------------------------------------------------------------
(* SpecMatch: ClusteringService._find_matching_cluster applied to an issue *)
(* summary and a list of candidate clusters.                               *)

\* clusterer.py 29, as the fraction 3/10; a score is a fraction <<p, q>>
SIMILARITY_THRESHOLD == <<3, 10>>
Exceeds(a, b) == a[1] * b[2] > b[1] * a[2]

\* clusterer.py 169: score > self.SIMILARITY_THRESHOLD
AboveThreshold_Inclusive(score) == ~Exceeds(SIMILARITY_THRESHOLD, score)
AboveThreshold(score) == Exceeds(score, SIMILARITY_THRESHOLD)

\* clusterer.py 152
IssueWords(summary) == Split(Lower(summary))

\* clusterer.py 158-161
ClusterWords(cluster_name) == Split(Lower(cluster_name)) \ {Tok("new:")}

\* clusterer.py 166-167
Score(issue_words, cluster_words) ==
    <<Cardinality(issue_words \cap cluster_words), Max(Cardinality(issue_words), 1)>>

\* clusterer.py 157-171: the loop from candidate i on
RECURSIVE BestMatch(_, _, _, _, _)
BestMatch(issue_words, cands, i, best_match, best_score) ==
    IF i > Len(cands) THEN best_match
    ELSE LET cluster_words == ClusterWords(cands[i].cluster_name)
             score == Score(issue_words, cluster_words)
             better == /\ cluster_words # {}
                       /\ AboveThreshold(score)
                       /\ Exceeds(score, best_score)
         IN  BestMatch(issue_words, cands, i + 1,
                       IF better THEN i ELSE best_match,
                       IF better THEN score ELSE best_score)

\* clusterer.py 132-173: the position of the returned cluster in the list
\* of candidates, 0 for None
FindMatchingCluster(summary, cands) ==
    IF cands = <<>> THEN 0
    ELSE BestMatch(IssueWords(summary), cands, 1, 0, <<0, 1>>)

\* issue summaries
Summaries ==
    {Text(<<"Clock-in", "button", "broken", "on", "Android">>),
     Text(<<"Android", "app", "clock-in", "not", "working">>),
     Text(<<"Tax", "calculation", "error">>),
     Text(<<"Timesheet", "export", "to", "payroll", "fails", "for", "salaried",
            "staff", "after", "update">>),
     Text(<<>>)}

\* cluster names
ClusterNames ==
    {Text(<<"New:", "Clock-in", "button", "broken", "on", "Android">>),
     Text(<<"Android", "clock-in", "failures">>),
     Text(<<"Timesheet", "export", "fails">>),
     Text(<<"Timesheet", "export", "to", "payroll">>),
     Text(<<"Geofencing", "issues">>),
     Text(<<"New:">>),
     Text(<<>>)}

CandidateLists ==
    UNION {[1..n -> {[cluster_name |-> c] : c \in ClusterNames}] : n \in 0..MaxCandidates}

MatchIdle ==
    /\ fm_issue = <<>>
    /\ fm_clusters = <<>>
    /\ fm_result = <<>>

MatchInit ==
    /\ fm_issue \in Summaries
    /\ fm_clusters \in CandidateLists
    /\ fm_result = <<>>

FindMatch ==
    /\ fm_result = <<>>
    /\ fm_result' = <<FindMatchingCluster(fm_issue, fm_clusters)>>
    /\ UNCHANGED <<fm_issue, fm_clusters>>
    /\ UNCHANGED <<thrVars, reqVars, syncVars, upsertVars, upstream, clusterVars, trendVars,
                   extraVars>>

MatchNext == FindMatch

-----------------------------------------------------------------------------
(* SpecCluster: one ClusteringService.cluster_issues pass, cut at its       *)
(* awaits: the query for unclustered issues, the query for the candidates  *)
(* of a group, each issue's assignment, the commit, and the naming of the  *)
(* placeholder clusters.  issues and clusters are the rows as the pass's   *)
(* session holds them (autoflush is off, database.py 46); db_clusters are  *)
(* the cluster rows as last committed.  An id is a position in the table,  *)
(* 0 stands for NULL.  extracted_at is never NULL in a stored issue, so    *)
(* `issue.extracted_at or datetime.utcnow()` is issue.extracted_at.        *)

Topics ==
    {<<"TIME_AND_ATTENDANCE", "Clock In/Out">>,
     <<"TIME_AND_ATTENDANCE", "Geofencing">>,
     <<"PAYROLL", "Tax Calculations">>}
Times == 1..MaxTime

Summary1 == Text(<<"Clock-in", "button", "broken", "on", "Android">>)
Summary2 == Text(<<"Android", "app", "clock-in", "not", "working">>)

IssueRow(topic, summary, at, cid) ==
    [category |-> topic[1], subcategory |-> topic[2], summary |-> summary,
     extracted_at |-> at, cluster_id |-> cid]

ClusterRow(topic, name, count, first, last, active) ==
    [category |-> topic[1], subcategory |-> topic[2], cluster_name |-> name,
     cluster_summary |-> "None", issue_count |-> count, first_seen |-> first,
     last_seen |-> last, count_7d |-> 0, count_prior_7d |-> 0, trend_pct |-> <<>>,
     is_active |-> active]

\* clusterer.py 105: f"New: {issue.summary[:50]}"
SUMMARY_PREFIX == 50
PlaceholderName(summary) == <<Tok("New:")>> \o Slice(summary, SUMMARY_PREFIX)

\* clusterer.py 180: cluster_name LIKE 'New:%'
IsPlaceholder(name) == name # <<>> /\ name[1] = Tok("New:")

\* a value None written to cluster_name
NoneName == <<[w |-> "None", n |-> 0]>>

Key(row) == <<row.category, row.subcategory>>

\* clusterer.py 62-65
Unclustered_All == SortedIds(1..Len(issues))
Unclustered == SortedIds({i \in 1..Len(issues) : issues[i].cluster_id = 0})

\* clusterer.py 74-77: the groups in the order of their first issue
RECURSIVE Grouped(_)
Grouped(ids) ==
    IF ids = <<>> THEN <<>>
    ELSE LET key == Key(issues[Head(ids)])
             Same(i) == Key(issues[i]) = key
             Other(i) == Key(issues[i]) # key
         IN  <<[key |-> key, issues |-> SelectSeq(ids, Same)]>>
                \o Grouped(SelectSeq(ids, Other))

\* clusterer.py 82-89: the candidates of a group
ExistingClusters_AnyStatus(key) ==
    SortedIds({c \in 1..Len(clusters) : Key(clusters[c]) = key})
ExistingClusters(key) ==
    SortedIds({c \in 1..Len(clusters) : Key(clusters[c]) = key /\ clusters[c].is_active})

\* clusterer.py 114: existing_clusters.append(new_cluster)
WithNewCluster_Forgotten(existing, id) == existing
WithNewCluster(existing, id) == Append(existing, id)

\* clusterer.py 98: matched.last_seen = issue.extracted_at or utcnow()
LastSeenOnMatch(cluster, issue) == issue.extracted_at

\* clusterer.py 93: the matched cluster's id for the next issue, 0 for None
Matched ==
    LET cands == [k \in 1..Len(existing_clusters) |-> clusters[existing_clusters[k]]]
        m == FindMatchingCluster(issues[Head(cur_issues)].summary, cands)
    IN  IF m = 0 THEN 0 ELSE existing_clusters[m]

\* the stores a pass can find: no cluster, or one cluster with one issue
InitialStores ==
    {[clusters |-> <<>>, issues |-> <<>>]}
    \cup
    {[clusters |-> <<ClusterRow(topic, name, 1, at, at, active)>>,
      issues |-> <<IssueRow(topic, Summary1, at, 1)>>] :
        topic \in Topics,
        name \in {PlaceholderName(Summary1), Text(<<"Android", "clock-in", "failures">>)},
        at \in Times, active \in BOOLEAN}

NewIssues ==
    UNION {[1..n -> {IssueRow(topic, summary, at, 0) :
                        topic \in Topics, summary \in {Summary1, Summary2}, at \in Times}] :
            n \in 0..MaxIssues}

PassIdle ==
    /\ cl_pc = "idle"
    /\ grouped = <<>>
    /\ cur_key = <<>>
    /\ cur_issues = <<>>
    /\ existing_clusters = <<>>
    /\ issues_clustered = 0
    /\ new_clusters_created = 0
    /\ to_name = <<>>
    /\ assigned = <<>>
    /\ naming_log = <<>>
    /\ cl_result = <<"none">>

ClusterIdle ==
    /\ issues = <<>>
    /\ clusters = <<>>
    /\ db_clusters = <<>>
    /\ PassIdle

ClusterInit ==
    /\ \E store \in InitialStores, new \in NewIssues :
          /\ issues = store.issues \o new
          /\ clusters = store.clusters
    /\ db_clusters = clusters
    /\ PassIdle

nonClusterVars == <<thrVars, reqVars, syncVars, upsertVars, upstream, matchVars, trendVars,
                    extraVars>>

\* clusterer.py 58-77: there are unclustered issues
StartPass ==
    /\ cl_pc = "idle"
    /\ Unclustered # <<>>
    /\ issues_clustered' = 0
    /\ new_clusters_created' = 0
    /\ grouped' = Grouped(Unclustered)
    /\ cl_pc' = "group"
    /\ UNCHANGED <<issues, clusters, db_clusters, cur_key, cur_issues, existing_clusters,
                   to_name, assigned, naming_log, cl_result>>
    /\ UNCHANGED nonClusterVars

\* clusterer.py 67-69: the early return
NothingToCluster ==
    /\ cl_pc = "idle"
    /\ Unclustered = <<>>
    /\ cl_pc' = "done"
    /\ cl_result' = <<"returned", 0, 0>>
    /\ UNCHANGED <<issues, clusters, db_clusters, grouped, cur_key, cur_issues,
                   existing_clusters, issues_clustered, new_clusters_created, to_name,
                   assigned, naming_log>>
    /\ UNCHANGED nonClusterVars

\* clusterer.py 80-89: the next group and its candidates
LoadGroup ==
    /\ cl_pc = "group"
    /\ grouped # <<>>
    /\ cur_key' = Head(grouped).key
    /\ cur_issues' = Head(grouped).issues
    /\ existing_clusters' = ExistingClusters(Head(grouped).key)
    /\ grouped' = Tail(grouped)
    /\ cl_pc' = "assign"
    /\ UNCHANGED <<issues, clusters, db_clusters, issues_clustered, new_clusters_created,
                   to_name, assigned, naming_log, cl_result>>
    /\ UNCHANGED nonClusterVars

\* clusterer.py 91: on to the next issue of the group, or to the next group
NextIssue ==
    /\ cur_issues' = Tail(cur_issues)
    /\ cl_pc' = IF Tail(cur_issues) = <<>> THEN "group" ELSE "assign"

\* clusterer.py 93-99: the issue joins the matched cluster
AssignToMatched ==
    /\ cl_pc = "assign"
    /\ Matched # 0
    /\ LET i == Head(cur_issues)
           c == Matched
           last == LastSeenOnMatch(clusters[c], issues[i])
       IN  /\ issues' = [issues EXCEPT ![i].cluster_id = c]
           /\ clusters' = [clusters EXCEPT ![c].issue_count = @ + 1,
                                           ![c].last_seen = last]
           /\ assigned' = Append(assigned,
                 [issue |-> i, cluster |-> c, matched |-> TRUE,
                  last_seen_before |-> clusters[c].last_seen, last_seen_after |-> last,
                  count_after |-> clusters[c].issue_count + 1])
    /\ issues_clustered' = issues_clustered + 1
    /\ NextIssue
    /\ UNCHANGED <<db_clusters, grouped, cur_key, existing_clusters, new_clusters_created,
                   to_name, naming_log, cl_result>>
    /\ UNCHANGED nonClusterVars

\* clusterer.py 100-116: a new cluster for the issue
AssignToNew ==
    /\ cl_pc = "assign"
    /\ Matched = 0
    /\ LET i == Head(cur_issues)
           c == Len(clusters) + 1
           at == issues[i].extracted_at
       IN  /\ clusters' = Append(clusters,
                 ClusterRow(cur_key, PlaceholderName(issues[i].summary), 1, at, at, TRUE))
           /\ issues' = [issues EXCEPT ![i].cluster_id = c]
           /\ existing_clusters' = WithNewCluster(existing_clusters, c)
           /\ assigned' = Append(assigned,
                 [issue |-> i, cluster |-> c, matched |-> FALSE,
                  last_seen_before |-> at, last_seen_after |-> at, count_after |-> 1])
    /\ issues_clustered' = issues_clustered + 1
    /\ new_clusters_created' = new_clusters_created + 1
    /\ NextIssue
    /\ UNCHANGED <<db_clusters, grouped, cur_key, to_name, naming_log, cl_result>>
    /\ UNCHANGED nonClusterVars

\* clusterer.py 118 and 178-183: commit, then the clusters with a placeholder name
CommitAssignmentsStep ==
    /\ cl_pc = "group"
    /\ grouped = <<>>
    /\ db_clusters' = clusters
    /\ to_name' = SortedIds({c \in 1..Len(clusters) : IsPlaceholder(clusters[c].cluster_name)})
    /\ cl_pc' = "naming"
    /\ UNCHANGED <<issues, clusters, grouped, cur_key, cur_issues, existing_clusters,
                   issues_clustered, new_clusters_created, assigned, naming_log, cl_result>>

CommitAssignments == CommitAssignmentsStep /\ UNCHANGED nonClusterVars

\* clusterer.py 187-192: the issues of a cluster, at most NAMING_LIMIT of them
NAMING_LIMIT == 20
Members(c) == {i \in 1..Len(issues) : issues[i].cluster_id = c}

\* the subsets of k elements of a set
RECURSIVE KSubsets(_, _)
KSubsets(S, k) ==
    IF k = 0 THEN {{}}
    ELSE IF Cardinality(S) < k THEN {}
    ELSE LET x == CHOOSE y \in S : TRUE
         IN  KSubsets(S \ {x}, k) \cup {T \cup {x} : T \in KSubsets(S \ {x}, k - 1)}

\* clusterer.py 187-192: LIMIT 20 with no ORDER BY, the store picks the rows
Samples(c) ==
    LET left_out == Cardinality(Members(c)) - Min(Cardinality(Members(c)), NAMING_LIMIT)
    IN  {Members(c) \ out : out \in KSubsets(Members(c), left_out)}

\* clusterer.py 195: `if len(issues) >= 2`
Nameable(c) == Min(Cardinality(Members(c)), NAMING_LIMIT) >= 2

\* dict.get
Get(d, k, default) == IF k \in DOMAIN d THEN d[k] ELSE default

\* clusterer.py 208-209
ApplyNaming(row, naming) ==
    [row EXCEPT !.cluster_name = Get(naming, "cluster_name", @),
                !.cluster_summary = Get(naming, "cluster_summary", "None")]

\* analyzer.py 165: what json.loads returns when the text is a JSON object
NamingDicts ==
    {[cluster_name |-> Text(<<"Android", "clock-in", "failures">>), cluster_summary |-> "named"],
     [cluster_summary |-> "named"],
     [cluster_name |-> NoneName, cluster_summary |-> "None"]}

NamingKind(naming) ==
    IF "cluster_name" \notin DOMAIN naming THEN "no_name"
    ELSE IF naming.cluster_name = NoneName THEN "null_name" ELSE "named"

\* analyzer.py 167-173: the dictionary returned on a JSONDecodeError
CategoryLabel(category) ==
    IF category = "PAYROLL" THEN "PAYROLL:" ELSE "TIME_AND_ATTENDANCE:"
Fallback(first) ==
    [cluster_name |-> <<Tok(CategoryLabel(first.category))>>
                         \o Slice(first.summary, SUMMARY_PREFIX),
     cluster_summary |-> "auto"]

Visit(kind, sent) ==
    /\ naming_log' = Append(naming_log,
          [cluster |-> Head(to_name), kind |-> kind, sent |-> sent,
           name_before |-> clusters[Head(to_name)].cluster_name])
    /\ to_name' = Tail(to_name)
    /\ UNCHANGED <<issues, db_clusters, cl_pc, grouped, cur_key, cur_issues,
                   existing_clusters, issues_clustered, new_clusters_created, assigned,
                   cl_result>>
    /\ UNCHANGED nonClusterVars

\* clusterer.py 195: fewer than two issues, the cluster is left alone
NameSkip ==
    /\ cl_pc = "naming"
    /\ to_name # <<>>
    /\ ~Nameable(Head(to_name))
    /\ Visit("skipped", {})
    /\ UNCHANGED clusters

\* clusterer.py 207-209: the service's text is a JSON object
NameFromDict ==
    /\ cl_pc = "naming"
    /\ to_name # <<>>
    /\ Nameable(Head(to_name))
    /\ \E s \in Samples(Head(to_name)), naming \in NamingDicts :
          /\ clusters' = [clusters EXCEPT ![Head(to_name)] = ApplyNaming(@, naming)]
          /\ Visit(NamingKind(naming), s)

\* analyzer.py 167-173, clusterer.py 208-209: the text is not JSON
NameFallback ==
    /\ cl_pc = "naming"
    /\ to_name # <<>>
    /\ Nameable(Head(to_name))
    /\ \E s \in Samples(Head(to_name)) : \E first \in s :
          /\ clusters' = [clusters EXCEPT ![Head(to_name)] =
                             ApplyNaming(@, Fallback(issues[first]))]
          /\ Visit("invalid_json", s)

\* analyzer.py 174-176 (the API call fails) or clusterer.py 208 (the JSON
\* value has no .get); caught at clusterer.py 211-213
NameRaises ==
    /\ cl_pc = "naming"
    /\ to_name # <<>>
    /\ Nameable(Head(to_name))
    /\ \E s \in Samples(Head(to_name)) : Visit("raised", s)
    /\ UNCHANGED clusters

\* clusterer.py 215: commit.  cluster_name is NOT NULL (models/cluster.py 61):
\* a None written at 208 makes the commit raise, outside the try of 196-213
CommitRaises == \E c \in 1..Len(clusters) : clusters[c].cluster_name = NoneName

\* clusterer.py 215 and 123-130
FinishNaming ==
    /\ cl_pc = "naming"
    /\ to_name = <<>>
    /\ IF CommitRaises
       THEN /\ cl_pc' = "raised"
            /\ cl_result' = <<"raised", "IntegrityError">>
            /\ clusters' = db_clusters
            /\ UNCHANGED db_clusters
       ELSE /\ cl_pc' = "done"
            /\ cl_result' = <<"returned", issues_clustered, new_clusters_created>>
            /\ db_clusters' = clusters
            /\ UNCHANGED clusters
    /\ UNCHANGED <<issues, grouped, cur_key, cur_issues, existing_clusters,
                   issues_clustered, new_clusters_created, to_name, assigned, naming_log>>
    /\ UNCHANGED nonClusterVars

\* SpecNaming: a pass over a store whose one cluster still bears its
\* placeholder name (the naming service failed in the earlier passes) and
\* has NAMING_LIMIT issues, extracted at the times 1..NAMING_LIMIT
NamingTopics == {<<"TIME_AND_ATTENDANCE", "Clock In/Out">>, <<"PAYROLL", "Tax Calculations">>}

NamingInit ==
    /\ \E n \in 0..MaxNamingIssues :
       \E new \in [1..n -> {IssueRow(topic, Summary1, at, 0) :
                               topic \in NamingTopics, at \in {0, NAMING_LIMIT + 1}}] :
          issues = [i \in 1..NAMING_LIMIT |->
                       IssueRow(<<"TIME_AND_ATTENDANCE", "Clock In/Out">>, Summary1, i, 1)] \o new
    /\ clusters = <<ClusterRow(<<"TIME_AND_ATTENDANCE", "Clock In/Out">>,
                               PlaceholderName(Summary1), NAMING_LIMIT, 1, NAMING_LIMIT, TRUE)>>
    /\ db_clusters = clusters
    /\ PassIdle

ClusterNext ==
    \/ StartPass
    \/ NothingToCluster
    \/ LoadGroup
    \/ AssignToMatched
    \/ AssignToNew
    \/ CommitAssignments
    \/ NameSkip
    \/ NameFromDict
    \/ NameFallback
    \/ NameRaises
    \/ FinishNaming

-----------------------------------------------------------------------------
(* SpecTrend: one ClusteringService.update_cluster_trends pass over the    *)
(* issue and cluster tables.  Time is counted in days from the moment the  *)
(* pass reads the clock (clusterer.py 224): that moment is day 0, an       *)
(* earlier day is negative.  A trend_pct is a fraction <<p, q>>.           *)

WEEK == 7
TWO_WEEKS == 14

\* extraction times around the edges of the two windows
TrendTimes == {0 - 15, 0 - 14, 0 - 8, 0 - 7, 0 - 1, 0, 1}

\* clusterer.py 236-242
Count7d(c, week_ago) ==
    Cardinality({i \in 1..Len(issues) :
                    /\ issues[i].cluster_id = c
                    /\ issues[i].extracted_at >= week_ago})

\* clusterer.py 245-252
CountPrior7d(c, week_ago, two_weeks_ago) ==
    Cardinality({i \in 1..Len(issues) :
                    /\ issues[i].cluster_id = c
                    /\ issues[i].extracted_at >= two_weeks_ago
                    /\ issues[i].extracted_at < week_ago})

\* clusterer.py 255-258
TrendPct_Reversed(count_7d, count_prior_7d) ==
    IF count_prior_7d > 0 THEN <<(count_prior_7d - count_7d) * 100, count_prior_7d>>
    ELSE IF count_7d > 0 THEN <<100, 1>> ELSE <<0, 1>>
TrendPct(count_7d, count_prior_7d) ==
    IF count_prior_7d > 0 THEN <<(count_7d - count_prior_7d) * 100, count_prior_7d>>
    ELSE IF count_7d > 0 THEN <<100, 1>> ELSE <<0, 1>>

TrendTopic == <<"TIME_AND_ATTENDANCE", "Clock In/Out">>

\* the stores a pass can find: an active cluster and a second cluster, active
\* or not, with their issues
TrendStores ==
    {[clusters |-> <<ClusterRow(TrendTopic, Text(<<"Android", "clock-in", "failures">>),
                                0, 0 - 15, 1, TRUE),
                     ClusterRow(TrendTopic, Text(<<"Geofencing", "issues">>),
                                0, 0 - 15, 1, active)>>,
      issues |-> iss] :
        active \in BOOLEAN,
        iss \in UNION {[1..n -> {IssueRow(TrendTopic, Summary1, at, c) :
                                    at \in TrendTimes, c \in 1..2}] :
                        n \in 0..MaxTrendIssues}}

TrendIdle ==
    /\ tr_pc = "idle"
    /\ tr_now = <<>>
    /\ tr_clusters = <<>>

TrendInit ==
    /\ \E store \in TrendStores :
          /\ issues = store.issues
          /\ clusters = store.clusters
    /\ db_clusters = clusters
    /\ PassIdle
    /\ TrendIdle

nonTrendVars == <<thrVars, reqVars, syncVars, upsertVars, upstream, matchVars,
                  issues, db_clusters, passVars, extraVars>>

\* clusterer.py 224-232
StartTrends ==
    /\ tr_pc = "idle"
    /\ tr_now' = <<0>>
    /\ tr_clusters' = SortedIds({c \in 1..Len(clusters) : clusters[c].is_active})
    /\ tr_pc' = "loop"
    /\ UNCHANGED clusters
    /\ UNCHANGED nonTrendVars

\* clusterer.py 234-264: one cluster of the loop
UpdateTrend ==
    /\ tr_pc = "loop"
    /\ tr_clusters # <<>>
    /\ LET c == Head(tr_clusters)
           week_ago == tr_now[1] - WEEK
           two_weeks_ago == tr_now[1] - TWO_WEEKS
           count_7d == Count7d(c, week_ago)
           count_prior_7d == CountPrior7d(c, week_ago, two_weeks_ago)
       IN  clusters' = [clusters EXCEPT ![c].count_7d = count_7d,
                                        ![c].count_prior_7d = count_prior_7d,
                                        ![c].trend_pct = TrendPct(count_7d, count_prior_7d)]
    /\ tr_clusters' = Tail(tr_clusters)
    /\ UNCHANGED <<tr_pc, tr_now>>
    /\ UNCHANGED nonTrendVars

\* models/cluster.py 84: trend_pct is Numeric(5, 2), nullable
NUMERIC_PRECISION == 5
NUMERIC_SCALE == 2

RECURSIVE Pow10(_)
Pow10(n) == IF n = 0 THEN 1 ELSE 10 * Pow10(n - 1)

Abs(n) == IF n < 0 THEN 0 - n ELSE n

\* the value as the column takes it: rounded to NUMERIC_SCALE decimals (half
\* away from zero), in units of the last decimal, without its sign
Rounded(pct) ==
    (2 * Abs(pct[1]) * Pow10(NUMERIC_SCALE) + pct[2]) \div (2 * pct[2])

\* PostgreSQL takes a numeric(5, 2) value whose rounded magnitude is below
\* 10^(5 - 2) and rejects any other ("numeric field overflow"); NULL is taken
Storable(pct) ==
    pct # <<>> => Rounded(pct) < Pow10(NUMERIC_PRECISION)

\* the UPDATEs of the flush at line 266 are all taken
AllStorable(cls) == \A c \in 1..Len(cls) : Storable(cls[c].trend_pct)

\* clusterer.py 266
CommitTrends ==
    /\ tr_pc = "loop"
    /\ tr_clusters = <<>>
    /\ AllStorable(clusters)
    /\ tr_pc' = "done"
    /\ UNCHANGED <<clusters, tr_now, tr_clusters>>
    /\ UNCHANGED nonTrendVars

TrendNext ==
    \/ StartTrends
    \/ UpdateTrend
    \/ CommitTrends

\* SpecRange: the pass over a cluster whose two windows hold any numbers of
\* issues, up to MaxRangeIssues together.

\* clusterer.py 266: the store rejects a value, the commit raises and the
\* session is rolled back (database.py 67-68)
CommitTrendsRejected ==
    /\ tr_pc = "loop"
    /\ tr_clusters = <<>>
    /\ ~AllStorable(clusters)
    /\ tr_pc' = "raised"
    /\ clusters' = db_clusters
    /\ UNCHANGED <<tr_now, tr_clusters>>
    /\ UNCHANGED nonTrendVars

\* an active cluster with `prior` issues extracted in the earlier window and
\* `recent` issues extracted in the later one
RangeInit ==
    /\ \E prior, recent \in 0..MaxRangeIssues :
          /\ prior + recent <= MaxRangeIssues
          /\ issues = [i \in 1..(prior + recent) |->
                          IssueRow(TrendTopic, Summary1,
                                   IF i <= prior THEN 0 - 8 ELSE 0 - 1, 1)]
          /\ clusters = <<ClusterRow(TrendTopic, Text(<<"Android", "clock-in", "failures">>),
                                     prior + recent, 0 - 8, 0 - 1, TRUE)>>
    /\ db_clusters = clusters
    /\ PassIdle
    /\ TrendIdle

RangeNext ==
    \/ StartTrends
    \/ UpdateTrend
    \/ CommitTrends
    \/ CommitTrendsRejected

-----------------------------------------------------------------------------
(* SpecCustomers and SpecMerge: update_unique_customer_counts and          *)
(* merge_clusters of ClusteringService, called one at a time on one        *)
(* session and cut at their awaits.  mt_issues and mt_clusters are the     *)
(* rows as the call's open transaction sees them, mt_db the rows as last   *)
(* committed, which is what any other transaction reads.  A cluster id is  *)
(* a position in the table; issue i belongs to ticket i.                   *)

ClusterIds == {1, 2, 3}

\* ticket.py 46: requester_org_name is Optional; NullOrg stands for NULL
NullOrg == "NULL"
OrgNames == {NullOrg, "Company A", "Company B"}

MergeIssueRow(ticket_id, cluster_id) == [ticket_id |-> ticket_id, cluster_id |-> cluster_id]
MergeClusterRow(count, customers, active) ==
    [issue_count |-> count, unique_customers |-> customers, is_active |-> active]
Tables(iss, cls) == [issues |-> iss, clusters |-> cls]

\* the issues that reference cluster c
Referencing(iss, c) == {i \in 1..Len(iss) : iss[i].cluster_id = c}

\* clusterer.py 285-288: the requester_org_name column over the join of the
\* cluster's issues with their tickets
OrgsOf(iss, c) == {mt_tickets[iss[i].ticket_id] : i \in Referencing(iss, c)}

\* clusterer.py 285: func.count(func.distinct(...)); the aggregate leaves
\* NULL out.  It never yields NULL, so `or 0` (290) changes nothing.
CountDistinct(values) == Cardinality(values \ {NullOrg})
UniqueCustomers(iss, c) == CountDistinct(OrgsOf(iss, c))

\* clusterer.py 310-314
Reassign(iss, source_id, target_id) ==
    [i \in 1..Len(iss) |->
        IF iss[i].cluster_id = source_id
        THEN [iss[i] EXCEPT !.cluster_id = target_id] ELSE iss[i]]

\* clusterer.py 317-321
Deactivate(cls, source_id) == [cls EXCEPT ![source_id].is_active = FALSE]

\* clusterer.py 330-334
TargetCount_Summed(iss, cls, source_id, target_id) ==
    cls[source_id].issue_count + cls[target_id].issue_count
TargetCount(iss, cls, source_id, target_id) == Cardinality(Referencing(iss, target_id))

\* database.py 45: autocommit=False.  What is committed once a statement of
\* the open transaction has run: the rows committed before it.
Committed_Autocommit(db, iss, cls) == Tables(iss, cls)
Committed(db, iss, cls) == db

\* the stores a call can find: every issue clustered, the counters exact
MergeStores(names) ==
    UNION {{[tickets |-> orgs, issues |-> [i \in 1..n |-> MergeIssueRow(i, cl[i])]] :
                orgs \in [1..n -> names], cl \in [1..n -> ClusterIds]} :
           n \in 0..MaxMergeIssues}

Call(op, source_id, target_id, before) ==
    [op |-> op, source_id |-> source_id, target_id |-> target_id, before |-> before]

MaintIdle ==
    /\ mt_tickets = <<>>
    /\ mt_issues = <<>>
    /\ mt_clusters = <<>>
    /\ mt_db = Tables(<<>>, <<>>)
    /\ mt_pc = "idle"
    /\ mt_call = Call("none", 0, 0, mt_db)
    /\ mt_todo = <<>>
    /\ mt_result = "none"

MaintInit(names, flags) ==
    /\ \E st \in MergeStores(names) :
          /\ mt_tickets = st.tickets
          /\ mt_issues = st.issues
    /\ \E active \in [ClusterIds -> flags] :
          mt_clusters = [c \in ClusterIds |->
                            MergeClusterRow(Cardinality(Referencing(mt_issues, c)), 0,
                                            active[c])]
    /\ mt_db = Tables(mt_issues, mt_clusters)
    /\ mt_pc = "idle"
    /\ mt_call = Call("none", 0, 0, mt_db)
    /\ mt_todo = <<>>
    /\ mt_result = "none"

nonMaintVars == <<thrVars, reqVars, syncVars, upsertVars, upstream, matchVars, clusterVars,
                  trendVars, workerVars, triggerVars, rowVars, lateVars>>

\* clusterer.py 276-279: the active clusters are read
CountStart ==
    /\ mt_pc = "idle"
    /\ mt_pc' = "counting"
    /\ mt_call' = Call("update_unique_customer_counts", 0, 0, mt_db)
    /\ mt_todo' = SortedIds({c \in ClusterIds : mt_clusters[c].is_active})
    /\ mt_result' = "none"
    /\ UNCHANGED <<mt_tickets, mt_issues, mt_clusters, mt_db>>
    /\ UNCHANGED nonMaintVars

\* clusterer.py 281-291: one turn of the loop
CountCluster ==
    /\ mt_pc = "counting"
    /\ mt_todo # <<>>
    /\ mt_clusters' = [mt_clusters EXCEPT ![Head(mt_todo)].unique_customers =
                          UniqueCustomers(mt_issues, Head(mt_todo))]
    /\ mt_todo' = Tail(mt_todo)
    /\ UNCHANGED <<mt_tickets, mt_issues, mt_db, mt_pc, mt_call, mt_result>>
    /\ UNCHANGED nonMaintVars

\* clusterer.py 292-293
CountCommit ==
    /\ mt_pc = "counting"
    /\ mt_todo = <<>>
    /\ mt_db' = Tables(mt_issues, mt_clusters)
    /\ mt_pc' = "idle"
    /\ mt_result' = "None"
    /\ UNCHANGED <<mt_tickets, mt_issues, mt_clusters, mt_call, mt_todo>>
    /\ UNCHANGED nonMaintVars

\* clusterer.py 309-314: the call starts, the first statement runs
MergeReassign ==
    /\ mt_pc = "idle"
    /\ \E source_id \in ClusterIds, target_id \in ClusterIds :
          /\ mt_call' = Call("merge_clusters", source_id, target_id, mt_db)
          /\ mt_issues' = Reassign(mt_issues, source_id, target_id)
    /\ mt_db' = Committed(mt_db, mt_issues', mt_clusters)
    /\ mt_pc' = "reassigned"
    /\ mt_result' = "none"
    /\ UNCHANGED <<mt_tickets, mt_clusters, mt_todo>>
    /\ UNCHANGED nonMaintVars

\* clusterer.py 316-321
MergeDeactivate ==
    /\ mt_pc = "reassigned"
    /\ mt_clusters' = Deactivate(mt_clusters, mt_call.source_id)
    /\ mt_db' = Committed(mt_db, mt_issues, mt_clusters')
    /\ mt_pc' = "deactivated"
    /\ UNCHANGED <<mt_tickets, mt_issues, mt_call, mt_todo, mt_result>>
    /\ UNCHANGED nonMaintVars

\* clusterer.py 323-334: the target is read and its counter set
MergeRecount ==
    /\ mt_pc = "deactivated"
    /\ mt_clusters' = [mt_clusters EXCEPT ![mt_call.target_id].issue_count =
                          TargetCount(mt_issues, mt_clusters,
                                      mt_call.source_id, mt_call.target_id)]
    /\ mt_db' = Committed(mt_db, mt_issues, mt_clusters')
    /\ mt_pc' = "recounted"
    /\ UNCHANGED <<mt_tickets, mt_issues, mt_call, mt_todo, mt_result>>
    /\ UNCHANGED nonMaintVars

\* clusterer.py 336-338
MergeCommit ==
    /\ mt_pc = "recounted"
    /\ mt_db' = Tables(mt_issues, mt_clusters)
    /\ mt_pc' = "idle"
    /\ mt_result' = "True"
    /\ UNCHANGED <<mt_tickets, mt_issues, mt_clusters, mt_call, mt_todo>>
    /\ UNCHANGED nonMaintVars

\* the next statement or the commit raises, or the process dies: nothing in
\* merge_clusters catches it, and the open transaction is rolled back when
\* the session is left (database.py 69-72) or the connection is lost
MergeFails ==
    /\ mt_pc \in {"reassigned", "deactivated", "recounted"}
    /\ mt_issues' = mt_db.issues
    /\ mt_clusters' = mt_db.clusters
    /\ mt_pc' = "idle"
    /\ mt_result' = "raised"
    /\ UNCHANGED <<mt_tickets, mt_db, mt_call, mt_todo>>
    /\ UNCHANGED nonMaintVars

CustomersNext ==
    \/ CountStart
    \/ CountCluster
    \/ CountCommit

MergeNext ==
    \/ MergeReassign
    \/ MergeDeactivate
    \/ MergeRecount
    \/ MergeCommit
    \/ MergeFails

-----------------------------------------------------------------------------
(* SpecRace: a cluster_issues pass and one merge_clusters call of another  *)
(* request, each in its own session and transaction (database.py 50-72).   *)
(* issues and clusters are the rows as the pass's session holds them;      *)
(* db_clusters are the cluster rows as the session loaded them; rc_issues  *)
(* and rc_clusters are the rows as last committed, which is what the       *)
(* other transaction reads and writes.  The store has two named clusters   *)
(* of one (category, subcategory), each matched by one of the summaries,   *)
(* so that the pass creates no cluster and flushes nothing before its      *)
(* commit (clusterer.py 118).                                              *)

\* merge_clusters as one transaction (clusterer.py 309-336): the rows it leaves
MergedStore(iss, cls, source_id, target_id) ==
    LET moved == Reassign(iss, source_id, target_id)
        off == Deactivate(cls, source_id)
    IN  [issues |-> moved,
         clusters |-> [off EXCEPT ![target_id].issue_count =
                           TargetCount(moved, off, source_id, target_id)]]

RaceTopic == <<"TIME_AND_ATTENDANCE", "Clock In/Out">>
RaceName1 == Text(<<"Clock-in", "button", "broken">>)
RaceName2 == Text(<<"Android", "app", "not", "working">>)

RaceInit ==
    /\ \E n \in 1..MaxRaceIssues :
       \E new \in [1..n -> {IssueRow(RaceTopic, summary, at, 0) :
                               summary \in {Summary1, Summary2}, at \in Times}] :
          issues = <<IssueRow(RaceTopic, Summary1, 1, 1), IssueRow(RaceTopic, Summary2, 1, 2)>>
                      \o new
    /\ clusters = <<ClusterRow(RaceTopic, RaceName1, 1, 1, 1, TRUE),
                    ClusterRow(RaceTopic, RaceName2, 1, 1, 1, TRUE)>>
    /\ db_clusters = clusters
    /\ rc_issues = issues
    /\ rc_clusters = clusters
    /\ rc_merged = <<>>
    /\ PassIdle

\* the pass has loaded the candidates of its group and has not committed yet
CandidatesLoaded ==
    \/ cl_pc = "assign"
    \/ cl_pc = "group" /\ cur_key # <<>>

\* clusterer.py 309-336 in the other transaction, from its first statement to
\* its commit, while the pass holds source_id among its candidates
MergeCommitsDuringPass ==
    /\ CandidatesLoaded
    /\ rc_merged = <<>>
    /\ \E source_id, target_id \in 1..Len(rc_clusters) :
          /\ source_id # target_id
          /\ \E k \in 1..Len(existing_clusters) : existing_clusters[k] = source_id
          /\ LET after == MergedStore(rc_issues, rc_clusters, source_id, target_id)
             IN  /\ rc_issues' = after.issues
                 /\ rc_clusters' = after.clusters
          /\ rc_merged' = <<source_id, target_id>>
    /\ UNCHANGED <<thrVars, reqVars, syncVars, upsertVars, upstream, matchVars, clusterVars,
                   trendVars, maintVars, workerVars, triggerVars, rowVars, windowVars, lockVars,
                   ops_log>>

\* the UPDATE the session emits for a row: the columns it has changed
Flushed(held, loaded, stored) ==
    [stored EXCEPT
        !.issue_count = IF held.issue_count # loaded.issue_count
                        THEN held.issue_count ELSE @,
        !.last_seen = IF held.last_seen # loaded.last_seen THEN held.last_seen ELSE @]

\* clusterer.py 118: the pass commits.  It writes cluster_id of the issues it
\* loaded (those without a cluster) and the changed columns of its clusters
CommitDuringRace ==
    /\ CommitAssignmentsStep
    /\ rc_issues' = [i \in 1..Len(rc_issues) |->
                        IF rc_issues[i].cluster_id = 0 THEN issues[i] ELSE rc_issues[i]]
    /\ rc_clusters' = [c \in 1..Len(rc_clusters) |->
                          Flushed(clusters[c], db_clusters[c], rc_clusters[c])]
    /\ UNCHANGED rc_merged
    /\ UNCHANGED <<thrVars, reqVars, syncVars, upsertVars, upstream, matchVars,
                   trendVars, maintVars, workerVars, triggerVars, rowVars, windowVars, lockVars,
                   ops_log>>

RaceNext ==
    \/ StartPass
    \/ LoadGroup
    \/ AssignToMatched
    \/ MergeCommitsDuringPass
    \/ CommitDuringRace
    \/ FinishNaming

-----------------------------------------------------------------------------
(* SpecOps: cluster_issues passes and merge_clusters calls made one after  *)
(* the other on one store, each by a request with a session of its own     *)
(* (database.py 50-72), so that every call finds the rows as last          *)
(* committed.  The steps of a pass are those of SpecCluster; a merge is    *)
(* one step, its transaction being atomic (C23).  ops_log lists the calls  *)
(* that have ended; at most MaxOps calls are made.                         *)

Op(op, source_id, target_id) == [op |-> op, source_id |-> source_id, target_id |-> target_id]

\* a store with two active clusters, named, one issue each, the counters
\* exact, and some issues without a cluster
OpsInit ==
    /\ \E t1, t2 \in NamingTopics, n \in 0..MaxOpsIssues :
       \E new \in [1..n -> {IssueRow(topic, summary, 1, 0) :
                               topic \in NamingTopics, summary \in {Summary1, Summary2}}] :
          /\ issues = <<IssueRow(t1, Summary1, 1, 1), IssueRow(t2, Summary2, 1, 2)>> \o new
          /\ clusters = <<ClusterRow(t1, RaceName1, 1, 1, 1, TRUE),
                          ClusterRow(t2, RaceName2, 1, 1, 1, TRUE)>>
    /\ db_clusters = clusters
    /\ PassIdle

nonOpsVars == <<thrVars, reqVars, syncVars, upsertVars, upstream, matchVars, trendVars,
                maintVars, workerVars, triggerVars, rowVars, windowVars, raceVars, lockVars>>

\* clusterer.py 127-130 or an exception: the call of cluster_issues is over
PassEnds ==
    /\ cl_pc \in {"done", "raised"}
    /\ Len(ops_log) < MaxOps
    /\ ops_log' = Append(ops_log, Op("cluster_issues", 0, 0))
    /\ cl_pc' = "idle"
    /\ grouped' = <<>>
    /\ cur_key' = <<>>
    /\ cur_issues' = <<>>
    /\ existing_clusters' = <<>>
    /\ issues_clustered' = 0
    /\ new_clusters_created' = 0
    /\ to_name' = <<>>
    /\ assigned' = <<>>
    /\ naming_log' = <<>>
    /\ cl_result' = <<"none">>
    /\ UNCHANGED <<issues, clusters, db_clusters, nonOpsVars>>

\* clusterer.py 295-338: merge_clusters(source_id, target_id), any two clusters
MergeClustersCall_KeepsCount(iss, cls, source_id, target_id) ==
    [issues |-> Reassign(iss, source_id, target_id),
     clusters |-> Deactivate(cls, source_id)]
MergeClustersCall(iss, cls, source_id, target_id) ==
    MergedStore(iss, cls, source_id, target_id)

MergeBetweenPasses ==
    /\ cl_pc = "idle"
    /\ Len(ops_log) < MaxOps
    /\ \E source_id, target_id \in 1..Len(clusters) :
          /\ LET after == MergeClustersCall(issues, clusters, source_id, target_id)
             IN  /\ issues' = after.issues
                 /\ clusters' = after.clusters
                 /\ db_clusters' = after.clusters
          /\ ops_log' = Append(ops_log, Op("merge_clusters", source_id, target_id))
    /\ UNCHANGED <<passVars, nonOpsVars>>

OpsNext ==
    \/ StartPass
    \/ NothingToCluster
    \/ LoadGroup
    \/ AssignToMatched
    \/ AssignToNew
    \/ CommitAssignments
    \/ NameSkip
    \/ NameFromDict
    \/ NameFallback
    \/ NameRaises
    \/ FinishNaming
    \/ PassEnds
    \/ MergeBetweenPasses

-----------------------------------------------------------------------------
(* SpecWorker: the BackgroundWorker singleton (worker.py 252) under the    *)
(* trigger endpoints of tasks.py.  An endpoint hands a run_* call to       *)
(* BackgroundTasks, which starts it once the response is sent; the call    *)
(* then runs across awaits until it returns or raises.  wk_scheduled and   *)
(* wk_running count the calls of each kind.                                *)

Tasks == {"run_sync", "run_analysis", "run_full_pipeline"}
NoTasks == [t \in Tasks |-> 0]
TaskCount(bag) == bag["run_sync"] + bag["run_analysis"] + bag["run_full_pipeline"]

\* worker.py 52-55: self._current_task is not None and not its done()
IsRunning == current_task # <<>> /\ ~current_task[1].done

\* worker.py 32-40; nothing after __init__ assigns self._current_task
WorkerInit ==
    /\ current_task = <<>>
    /\ worker_status = "idle"
    /\ wk_scheduled = NoTasks
    /\ wk_running = NoTasks
    /\ wk_log = <<"init">>

nonWorkerVars == <<thrVars, reqVars, syncVars, upsertVars, upstream, matchVars, clusterVars,
                   trendVars, maintVars, triggerVars, rowVars, lateVars>>

\* tasks.py 128-141, 165-178, 203-220: POST /sync, /analyze, /pipeline
TriggerTask ==
    /\ TaskCount(wk_scheduled) + TaskCount(wk_running) < MaxTasks
    /\ \E task \in Tasks :
          IF IsRunning
          THEN /\ wk_log' = <<"trigger", task, 400>>
               /\ UNCHANGED wk_scheduled
          ELSE /\ wk_scheduled' = [wk_scheduled EXCEPT ![task] = @ + 1]
               /\ wk_log' = <<"trigger", task, 200>>
    /\ UNCHANGED <<current_task, worker_status, wk_running>>
    /\ UNCHANGED nonWorkerVars

\* worker.py 97-104, 143-150, 194-201: a run_* call starts
RunStart ==
    /\ \E task \in Tasks :
          /\ wk_scheduled[task] > 0
          /\ wk_scheduled' = [wk_scheduled EXCEPT ![task] = @ - 1]
          /\ IF IsRunning
             THEN /\ wk_log' = <<"start", task, "RuntimeError">>
                  /\ UNCHANGED <<worker_status, wk_running>>
             ELSE /\ worker_status' = "running"
                  /\ wk_running' = [wk_running EXCEPT ![task] = @ + 1]
                  /\ wk_log' = <<"start", task, "started">>
    /\ UNCHANGED current_task
    /\ UNCHANGED nonWorkerVars

\* worker.py 113-128, 159-174, 233-248: the call returns or raises
RunFinish ==
    /\ \E task \in Tasks, status \in {"completed", "failed"} :
          /\ wk_running[task] > 0
          /\ wk_running' = [wk_running EXCEPT ![task] = @ - 1]
          /\ worker_status' = status
          /\ wk_log' = <<"finish", task, status>>
    /\ UNCHANGED <<current_task, wk_scheduled>>
    /\ UNCHANGED nonWorkerVars

WorkerNext == TriggerTask \/ RunStart \/ RunFinish

-----------------------------------------------------------------------------
(* SpecTrigger: POST /sync/trigger of sync_new.py in one process.  The     *)
(* handler has no await between its test of _sync_running and the          *)
(* scheduling of run_sync, so it is one step; run_sync is started by       *)
(* BackgroundTasks after the response and ends through its finally.        *)

\* the query parameter backfill_days: <<>> for None
TriggerArgs == {<<>>, <<0>>, <<1>>, <<365>>, <<366>>}

\* sync_new.py 53
MIN_BACKFILL == 1
MAX_BACKFILL == 365
InvalidBackfill(bf) == bf # <<>> /\ (bf[1] < MIN_BACKFILL \/ bf[1] > MAX_BACKFILL)

\* sync_new.py 60: the flag once the handler has accepted a trigger
FlagOnAccept_LeftToRun == sync_running
FlagOnAccept == TRUE

\* sync_new.py 91-92: the flag once run_sync has ended
FlagOnEnd_KeptOnError(how) == how = "failed"
FlagOnEnd(how) == FALSE

TriggerInit ==
    /\ sync_running = FALSE          \* sync_new.py 19
    /\ sync_progress = "None"        \* sync_new.py 20
    /\ tg_scheduled = 0
    /\ tg_running = 0
    /\ tg_log = <<>>

nonTriggerVars == <<thrVars, reqVars, syncVars, upsertVars, upstream, matchVars, clusterVars,
                    trendVars, maintVars, workerVars, rowVars, lateVars>>

\* sync_new.py 43-106
TriggerSync ==
    /\ Len(tg_log) < MaxEvents
    /\ \E bf \in TriggerArgs :
          IF sync_running
          THEN /\ tg_log' = Append(tg_log, <<"trigger", bf, "409">>)
               /\ UNCHANGED <<sync_running, sync_progress, tg_scheduled>>
          ELSE IF InvalidBackfill(bf)
          THEN /\ tg_log' = Append(tg_log, <<"trigger", bf, "400">>)
               /\ UNCHANGED <<sync_running, sync_progress, tg_scheduled>>
          ELSE /\ sync_running' = FlagOnAccept
               /\ sync_progress' = "Starting sync..."
               /\ tg_scheduled' = tg_scheduled + 1
               /\ tg_log' = Append(tg_log, <<"trigger", bf, "200">>)
    /\ UNCHANGED tg_running
    /\ UNCHANGED nonTriggerVars

\* sync_new.py 65-79: BackgroundTasks starts run_sync
RunSyncBegins ==
    /\ Len(tg_log) < MaxEvents
    /\ tg_scheduled > 0
    /\ tg_scheduled' = tg_scheduled - 1
    /\ tg_running' = tg_running + 1
    /\ sync_progress' = "Running sync..."
    /\ tg_log' = Append(tg_log, <<"run", <<>>, "begun">>)
    /\ UNCHANGED sync_running
    /\ UNCHANGED nonTriggerVars

\* sync_new.py 82-92: sync_tickets returns or raises, then the finally
RunSyncEnds ==
    /\ Len(tg_log) < MaxEvents
    /\ tg_running > 0
    /\ \E how \in {"completed", "failed"} :
          /\ sync_progress' = how
          /\ sync_running' = FlagOnEnd(how)
          /\ tg_log' = Append(tg_log, <<"run", <<>>, how>>)
    /\ tg_running' = tg_running - 1
    /\ UNCHANGED tg_scheduled
    /\ UNCHANGED nonTriggerVars

TriggerNext == TriggerSync \/ RunSyncBegins \/ RunSyncEnds

-----------------------------------------------------------------------------
(* SpecPage: one sync_tickets call with _upsert_ticket (sync.py 132-202)   *)
(* and the store's transaction in view.  A stored row is <<requester_email,*)
(* requester_org_name>>, <<>> when the ticket has no row.  pending_rows are *)
(* the rows as the call's open transaction sees them, stored_rows the rows *)
(* committed.  A statement the store rejects leaves the transaction either *)
(* usable (the statement alone is undone) or aborted, as PostgreSQL, the   *)
(* store of database.py 22-27, does: an aborted transaction rejects every  *)
(* later statement and its COMMIT ends it as a rollback, without an error. *)

NoRow == <<>>
Row(requester_email, requester_org_name) == <<requester_email, requester_org_name>>
AllTicketIds == 1..(MaxPages * MaxPerPage)

\* what get_user / get_organization do (sync.py 156, 164)
LookupOutcomes == {"ok", "failed"}

\* sync.py 148, 155-160: None unless the lookup returned
RequesterEmail_KeepsStored(lookup, row) ==
    IF lookup = "ok" THEN "email" ELSE IF row = NoRow THEN "None" ELSE row[1]
RequesterEmail(lookup, row) == IF lookup = "ok" THEN "email" ELSE "None"

\* sync.py 149, 163-168
RequesterOrgName(lookup, row) == IF lookup = "ok" THEN "name" ELSE "None"

\* how _upsert_ticket can raise: before its statement reaches the store
\* (sync.py 171, 183-184: a key the ticket lacks), or at sync.py 202 because
\* the store rejects the statement, aborting the transaction or not
UpsertFailures(aborted) ==
    IF aborted THEN {"not_reached", "rejected"}
    ELSE {"not_reached", "rejected", "rejected_aborts"}

LogEntry(id, req, org, statement) ==
    [id |-> id, requester |-> req, organization |-> org, statement |-> statement]

RowIdle ==
    /\ pending_rows = <<>>
    /\ stored_rows = <<>>
    /\ tx_aborted = FALSE
    /\ ticket_log = <<>>

\* the table a call can find: empty, or ticket 1 stored by an earlier run
RowInit ==
    /\ stored_rows \in {[id \in AllTicketIds |-> NoRow],
                        [id \in AllTicketIds |->
                            IF id = 1 THEN Row("email", "name") ELSE NoRow]}
    /\ pending_rows = stored_rows
    /\ tx_aborted = FALSE
    /\ ticket_log = <<>>

nonRowVars == <<thrVars, reqVars, upsertVars, upstream, matchVars, clusterVars, trendVars,
                maintVars, workerVars, triggerVars, lateVars>>

\* sync.py 77-83 on a service that has made no call yet
FirstCall ==
    /\ runs = 0
    /\ SyncStart

\* sync.py 103-111 with _upsert_ticket 132-202: the lookups are made,
\* whatever they do, and the statement runs
UpsertExecuted ==
    /\ ~tx_aborted
    /\ ProcessTicketStep
    /\ \E req \in LookupOutcomes, org \in LookupOutcomes :
          /\ pending_rows' =
                [pending_rows EXCEPT ![Head(batch)] =
                    Row(RequesterEmail(req, pending_rows[Head(batch)]),
                        RequesterOrgName(org, pending_rows[Head(batch)]))]
          /\ ticket_log' = Append(ticket_log, LogEntry(Head(batch), req, org, "executed"))
    /\ UNCHANGED <<stored_rows, tx_aborted>>
    /\ UNCHANGED nonRowVars

\* sync.py 107 raises, caught at 113: _upsert_ticket is not called
FetchRaises ==
    /\ TicketFetchFailsStep
    /\ ticket_log' = Append(ticket_log, LogEntry(Head(batch), "none", "none", "fetch_failed"))
    /\ UNCHANGED <<pending_rows, stored_rows, tx_aborted>>
    /\ UNCHANGED nonRowVars

\* sync.py 110 raises out of _upsert_ticket, caught at 113
UpsertRaises ==
    /\ TicketUpsertFailsStep
    /\ \E failure \in UpsertFailures(tx_aborted) :
          /\ ticket_log' = Append(ticket_log, LogEntry(Head(batch), "any", "any", failure))
          /\ tx_aborted' = (tx_aborted \/ failure = "rejected_aborts")
    /\ UNCHANGED <<pending_rows, stored_rows>>
    /\ UNCHANGED nonRowVars

\* sync.py 119-120: the commit of the page, then zendesk.py 412-416
CommitPage ==
    /\ sync_pc = "batch"
    /\ batch = <<>>
    /\ stored_rows' = IF tx_aborted THEN stored_rows ELSE pending_rows
    /\ pending_rows' = stored_rows'
    /\ tx_aborted' = FALSE
    /\ db_tickets' = {id \in AllTicketIds : stored_rows'[id] # NoRow}
    /\ db_pending' = {}
    /\ current_progress' = <<"Synced", tickets_synced>>
    /\ IF GoesOn(pg_next)
       THEN /\ pg_page' = NextPage(pg_page)
            /\ sync_pc' = "search"
       ELSE /\ sync_pc' = "finish"
            /\ UNCHANGED pg_page
    /\ last_event' = "commit"
    /\ UNCHANGED <<is_running, backfill_days, start_date, tickets_synced, errors, batch,
                   pg_next, requested, yielded, pages_served, sync_state, now_day,
                   runs, sync_result, state_at_start, ticket_log>>
    /\ UNCHANGED nonRowVars

\* sync.py 119 raises: the store is lost at the commit of a page.  Nothing
\* catches it, so the call ends through the finally clause; the rows of the
\* open transaction are gone.
CommitFails ==
    /\ sync_pc = "batch"
    /\ batch = <<>>
    /\ pending_rows' = stored_rows
    /\ tx_aborted' = FALSE
    /\ db_pending' = {}
    /\ sync_result' = <<"raised", "DBAPIError">>
    /\ Finally
    /\ sync_pc' = "idle"
    /\ last_event' = "commit_failed"
    /\ UNCHANGED <<backfill_days, start_date, tickets_synced, errors, batch, pg_page,
                   pg_next, requested, yielded, pages_served, db_tickets, sync_state,
                   now_day, runs, state_at_start, stored_rows, ticket_log>>
    /\ UNCHANGED nonRowVars

PageNext ==
    \/ FirstCall
    \/ DetermineStart
    \/ SearchPage
    \/ SearchFails
    \/ FetchRaises
    \/ UpsertExecuted
    \/ UpsertRaises
    \/ CommitPage
    \/ CommitFails
    \/ UpdateSyncState

WindowIdle == sw_age = 0 /\ sw_count = 0

RaceIdle == rc_issues = <<>> /\ rc_clusters = <<>> /\ rc_merged = <<>>

LateIdle == WindowIdle /\ RaceIdle /\ LockInit /\ ops_log = <<>>

ExtraIdle == MaintIdle /\ WorkerInit /\ TriggerInit /\ RowIdle /\ LateIdle

OtherInit == UpsertInit /\ UpstreamInit /\ MatchIdle /\ ClusterIdle /\ TrendIdle /\ ExtraIdle

-----------------------------------------------------------------------------
(* The specifications *)

\* a client whose throttle is in a state it can reach, about to make a call
RequestThrottleStates ==
    {<<c, e>> : c \in {0, RATE_LIMIT - 1, RATE_LIMIT}, e \in {0, WINDOW - 1, WINDOW}}

InitThrottle == ThrottleInit /\ RequestInit /\ SyncInit /\ OtherInit

SpecThrottle == InitThrottle /\ [][ThrottleNext]_vars /\ WF_vars(CheckWake)

InitRequest ==
    /\ \E st \in RequestThrottleStates :
          /\ request_count = st[1]
          /\ window_elapsed = st[2]
          /\ admitted = st[1]
    /\ thr_pc = "idle" /\ thr_sleep = 0 /\ thr_waits = 0
    /\ RequestInit /\ SyncInit /\ OtherInit

SpecRequest == InitRequest /\ [][RequestNext]_vars

\* the server answers every attempt (or the transport gives up on it), and
\* every sleep of the call ends
SpecRequestLive == InitRequest /\ [][RequestNext]_vars /\ WF_vars(RequestNext)

\* the interval begins in a state of the throttle between two calls
InitWindow ==
    /\ \E st \in RequestThrottleStates :
          /\ request_count = st[1]
          /\ window_elapsed = st[2]
          /\ admitted = st[1]
    /\ thr_pc = "idle" /\ thr_sleep = 0 /\ thr_waits = 0
    /\ RequestInit /\ SyncInit /\ sync_state = <<>> /\ OtherInit

SpecWindow == InitWindow /\ [][WindowNext]_vars

InitLock ==
    /\ \E st \in RequestThrottleStates :
          /\ request_count = st[1]
          /\ window_elapsed = st[2]
          /\ admitted = st[1]
    /\ thr_pc = "idle" /\ thr_sleep = 0 /\ thr_waits = 0
    /\ RequestInit /\ SyncInit /\ sync_state = <<>> /\ OtherInit

SpecLock == InitLock /\ [][LockNext]_vars

InitSync == ThrottleInit /\ RequestInit /\ SyncInit /\ OtherInit

SpecSync == InitSync /\ [][SyncNext]_vars

InitUpsert == ThrottleInit /\ RequestInit /\ SyncInit /\ OtherInit

SpecUpsert == InitUpsert /\ [][UpsertNext]_vars

InitWatermark == ThrottleInit /\ RequestInit /\ SyncInit /\ OtherInit

SpecWatermark == InitWatermark /\ [][WatermarkNext]_vars

InitMatch ==
    /\ ThrottleInit /\ RequestInit /\ SyncInit
    /\ UpsertInit /\ UpstreamInit /\ MatchInit /\ ClusterIdle /\ TrendIdle /\ ExtraIdle

SpecMatch == InitMatch /\ [][MatchNext]_vars

InitCluster ==
    /\ ThrottleInit /\ RequestInit /\ SyncInit /\ sync_state = <<>>
    /\ UpsertInit /\ UpstreamInit /\ MatchIdle /\ ClusterInit /\ TrendIdle /\ ExtraIdle

SpecCluster == InitCluster /\ [][ClusterNext]_vars

InitNaming ==
    /\ ThrottleInit /\ RequestInit /\ SyncInit /\ sync_state = <<>>
    /\ UpsertInit /\ UpstreamInit /\ MatchIdle /\ NamingInit /\ TrendIdle /\ ExtraIdle

SpecNaming == InitNaming /\ [][ClusterNext]_vars

InitTrend ==
    /\ ThrottleInit /\ RequestInit /\ SyncInit /\ sync_state = <<>>
    /\ UpsertInit /\ UpstreamInit /\ MatchIdle /\ TrendInit /\ ExtraIdle

SpecTrend == InitTrend /\ [][TrendNext]_vars

InitRange ==
    /\ ThrottleInit /\ RequestInit /\ SyncInit /\ sync_state = <<>>
    /\ UpsertInit /\ UpstreamInit /\ MatchIdle /\ RangeInit /\ ExtraIdle

SpecRange == InitRange /\ [][RangeNext]_vars

InitCustomers ==
    /\ ThrottleInit /\ RequestInit /\ SyncInit /\ sync_state = <<>>
    /\ UpsertInit /\ UpstreamInit /\ MatchIdle /\ ClusterIdle /\ TrendIdle
    /\ MaintInit(OrgNames, BOOLEAN) /\ WorkerInit /\ TriggerInit /\ RowIdle /\ LateIdle

SpecCustomers == InitCustomers /\ [][CustomersNext]_vars

InitMerge ==
    /\ ThrottleInit /\ RequestInit /\ SyncInit /\ sync_state = <<>>
    /\ UpsertInit /\ UpstreamInit /\ MatchIdle /\ ClusterIdle /\ TrendIdle
    /\ MaintInit({"Company A"}, {TRUE}) /\ WorkerInit /\ TriggerInit /\ RowIdle /\ LateIdle

SpecMerge == InitMerge /\ [][MergeNext]_vars

InitRace ==
    /\ ThrottleInit /\ RequestInit /\ SyncInit /\ sync_state = <<>>
    /\ UpsertInit /\ UpstreamInit /\ MatchIdle /\ RaceInit /\ TrendIdle
    /\ MaintIdle /\ WorkerInit /\ TriggerInit /\ RowIdle /\ WindowIdle /\ LockInit
    /\ ops_log = <<>>

SpecRace == InitRace /\ [][RaceNext]_vars

InitOps ==
    /\ ThrottleInit /\ RequestInit /\ SyncInit /\ sync_state = <<>>
    /\ UpsertInit /\ UpstreamInit /\ MatchIdle /\ OpsInit /\ TrendIdle /\ ExtraIdle

SpecOps == InitOps /\ [][OpsNext]_vars

InitWorker == ThrottleInit /\ RequestInit /\ SyncInit /\ sync_state = <<>> /\ OtherInit

SpecWorker == InitWorker /\ [][WorkerNext]_vars

InitTrigger == ThrottleInit /\ RequestInit /\ SyncInit /\ sync_state = <<>> /\ OtherInit

SpecTrigger == InitTrigger /\ [][TriggerNext]_vars

InitPage ==
    /\ ThrottleInit /\ RequestInit /\ SyncInit
    /\ UpsertInit /\ UpstreamInit /\ MatchIdle /\ ClusterIdle /\ TrendIdle
    /\ MaintIdle /\ WorkerInit /\ TriggerInit /\ RowInit /\ LateIdle

SpecPage == InitPage /\ [][PageNext]_vars


-----------------------------------------------------------------------------
(* Claims about _request, checked under SpecRequest *)

Last(seq) == seq[Len(seq)]
AllServed(S) == \A i \in 1..Len(served) : served[i] \in S

\* C1: when the server answers every attempt with a 5xx status, the call makes
\* exactly MAX_RETRIES + 1 attempts and MAX_RETRIES backoff sleeps and then
\* fails with ZendeskAPIError; it makes no further attempt and returns nothing.
C1_ServerErrorsExhaust ==
    AllServed(ServerErrorResponses) =>
        /\ attempts <= MAX_RETRIES + 1
        /\ req_pc # "returned" /\ outcome # "returned" /\ result = "none"
        /\ req_pc = "loop" =>
              /\ attempts <= MAX_RETRIES
              /\ Len(sleeps) = attempts
              /\ retries = attempts
        /\ req_pc = "raised" =>
              /\ attempts = MAX_RETRIES + 1
              /\ Len(sleeps) = MAX_RETRIES
              /\ outcome = "ZendeskAPIError"

C1_Witness ==
    /\ req_pc = "raised"
    /\ Len(served) = MAX_RETRIES + 1
    /\ AllServed(ServerErrorResponses)
    /\ outcome = "ZendeskAPIError"

\* the responses are k 429s that carry Retry-After (1 <= k <= MAX_RETRIES), then a 200
C2_Case ==
    /\ Len(served) >= 2
    /\ Len(served) <= MAX_RETRIES + 1
    /\ \A i \in 1..(Len(served) - 1) :
          served[i].status = 429 /\ served[i].retry_after # <<>>
    /\ Last(served).status = 200

\* C2: for k 429 responses carrying Retry-After r_1..r_k followed by a 200, the
\* call sleeps exactly k times, the i-th sleep lasting r_i seconds, and then
\* returns the body of the 200 response.
C2_RetryAfterHonoured ==
    C2_Case =>
        /\ req_pc = "returned" /\ outcome = "returned"
        /\ result = Last(served).body
        /\ attempts = Len(served)
        /\ Len(sleeps) = Len(served) - 1
        /\ \A i \in 1..(Len(served) - 1) : sleeps[i] = served[i].retry_after[1]

C2_Witness ==
    /\ C2_Case
    /\ Len(served) = 3
    /\ served[1].retry_after = <<2>>
    /\ served[2].retry_after = <<1>>
    /\ sleeps = <<2, 1>>
    /\ result = "b2"

\* C3: when every attempt is answered with 429 the call fails with
\* ZendeskRateLimitError on the (MAX_RETRIES + 1)-th 429, after MAX_RETRIES
\* retries, without sleeping after that last response.
C3_RateLimitExhausted ==
    AllServed(RateLimitedResponses) =>
        /\ attempts <= MAX_RETRIES + 1
        /\ req_pc # "returned"
        /\ req_pc = "loop" => attempts <= MAX_RETRIES /\ Len(sleeps) = attempts
        /\ req_pc = "raised" =>
              /\ outcome = "ZendeskRateLimitError"
              /\ attempts = MAX_RETRIES + 1
              /\ retries = MAX_RETRIES
              /\ Len(sleeps) = MAX_RETRIES

C3_Witness ==
    /\ req_pc = "raised"
    /\ Len(served) = MAX_RETRIES + 1
    /\ AllServed(RateLimitedResponses)
    /\ outcome = "ZendeskRateLimitError"

\* C4: a 4xx response other than 429 ends the call at once with
\* ZendeskAPIError: no sleep and no further attempt follows it, whatever the
\* value of the retry counter.
C4_ClientErrorNoRetry ==
    /\ \A i \in 1..(Len(served) - 1) : served[i] \notin ClientErrorResponses
    /\ (served # <<>> /\ Last(served) \in ClientErrorResponses) =>
          /\ req_pc = "raised"
          /\ outcome = "ZendeskAPIError"
          /\ attempts = Len(served)
          /\ Len(sleeps) = Len(served) - 1
          /\ retries = Len(served) - 1

C4_Witness ==
    /\ req_pc = "raised"
    /\ Len(served) = 3
    /\ Last(served).status = 404
    /\ retries = 2
    /\ outcome = "ZendeskAPIError"

-----------------------------------------------------------------------------
(* Claims about _check_rate_limit, checked under SpecThrottle *)

\* C5: within one throttle window (from a window start until the next reset)
\* at most RATE_LIMIT requests are let through, the call that triggers the
\* window reset included.
C5_WindowBudget == admitted <= RATE_LIMIT

\* a step in which only time passes
C6_TickStep ==
    /\ window_elapsed' = window_elapsed + 1
    /\ UNCHANGED <<request_count, thr_pc>>

\* C6: a call returns without sleeping while fewer than RATE_LIMIT requests
\* were counted in the window; when the budget is exhausted mid-window it
\* sleeps once, for the remainder of the window, then resets the window and is
\* admitted; every sleeping call eventually proceeds.
C6_ThrottledProceeds ==
    /\ [][/\ (thr_pc = "idle" /\ request_count < RATE_LIMIT) => thr_pc' = "idle"
          /\ (thr_pc = "idle" /\ BudgetExhausted(request_count, window_elapsed)
                /\ ~C6_TickStep) =>
                /\ thr_pc' = "sleeping"
                /\ thr_sleep' = WINDOW - window_elapsed
                /\ thr_sleep' > 0
          /\ thr_pc = "sleeping" =>
                /\ thr_pc' = "idle"
                /\ window_elapsed' = 0
                /\ request_count' = 1
                /\ admitted' = 1]_vars
    /\ (thr_pc = "sleeping") ~> (thr_pc = "idle" /\ request_count = 1)

C6_Witness ==
    /\ thr_pc = "sleeping"
    /\ request_count = RATE_LIMIT
    /\ window_elapsed = 7
    /\ thr_sleep = WINDOW - 7

-----------------------------------------------------------------------------
(* Claims about paginate_search and sync_tickets, checked under SpecSync *)

RECURSIVE ConcatResults(_)
ConcatResults(ps) ==
    IF ps = <<>> THEN <<>>
    ELSE ConcatResults(SubSeq(ps, 1, Len(ps) - 1)) \o Last(ps).results

\* the server held N >= 1 non-empty pages, the last one signalling no next page
C7_WellFormed(ps) ==
    /\ Len(ps) >= 1
    /\ \A i \in 1..Len(ps) :
          ps[i].results # <<>> /\ (ps[i].next_page <=> i < Len(ps))

\* C7: the generator requests the pages 1, 2, ... in order, goes on exactly
\* while the page is non-empty and the server signals a next page, and yields
\* each page's results once, in server order; an empty first page gives one
\* request and no yield.
C7_Pagination ==
    /\ sync_pc \in {"search", "batch", "finish"} =>
          /\ requested = [i \in 1..Len(pages_served) |-> i]
          /\ yielded = ConcatResults(pages_served)
          /\ \A i \in 1..(Len(pages_served) - 1) :
                pages_served[i].results # <<>> /\ pages_served[i].next_page
    /\ sync_pc = "search" => pg_page = Len(pages_served) + 1
    /\ sync_pc = "finish" =>
          /\ pages_served # <<>>
          /\ Last(pages_served).results = <<>> \/ ~Last(pages_served).next_page
          /\ C7_WellFormed(pages_served) => Len(requested) = Len(pages_served)
          /\ pages_served[1].results = <<>> =>
                requested = <<1>> /\ yielded = <<>>

C7_Witness ==
    /\ sync_pc = "finish"
    /\ C7_WellFormed(pages_served)
    /\ requested = <<1, 2>>
    /\ Len(yielded) = 2 * MaxPerPage

\* C8: a sync_tickets call that arrives while another is in flight raises at
\* once: it writes nothing to the store and leaves the running flag, the
\* progress and the in-flight call as they are.
C8_SingleFlight ==
    [][last_event' = "rejected" =>
          /\ is_running /\ is_running'
          /\ current_progress' = current_progress
          /\ db_tickets' = db_tickets /\ db_pending' = db_pending
          /\ sync_state' = sync_state
          /\ requested' = requested
          /\ sync_pc' = sync_pc /\ batch' = batch
          /\ tickets_synced' = tickets_synced /\ errors' = errors]_vars

C8_Witness ==
    /\ last_event = "rejected"
    /\ is_running
    /\ sync_pc = "batch"
    /\ db_pending # {}
    /\ current_progress[1] = "Processing"

\* C9: a provided backfill_days n gives the window start now - n whatever the
\* checkpoint table holds; without it the start is the watermark of the
\* checkpoint completed last, or now - 1 when the table is empty.
C9_WindowStart ==
    last_event = "window" =>
        IF backfill_days # <<>>
        THEN start_date = <<now_day - backfill_days[1]>>
        ELSE IF sync_state # <<>>
             THEN start_date \in LastSyncTimestamps(sync_state)
             ELSE start_date = <<now_day - 1>>

\* C10: every ticket the search yielded is counted once, as synced or as an
\* error, and a failed ticket does not stop the page or the run: when the
\* call returns, tickets_synced + errors is the number of tickets yielded.
C10_ErrorsCounted ==
    /\ sync_pc \in {"search", "batch", "finish"} =>
          tickets_synced + errors + Len(batch) = Len(yielded)
    /\ sync_pc = "finish" => batch = <<>>
    /\ sync_result[1] = "returned" =>
          /\ sync_result[2] + sync_result[3] = Len(yielded)
          /\ yielded = ConcatResults(pages_served)
          /\ Last(pages_served).results = <<>> \/ ~Last(pages_served).next_page

C10_Witness ==
    /\ sync_result[1] = "returned"
    /\ runs = 1
    /\ Len(yielded) = 2 * MaxPerPage
    /\ sync_result[3] = 1
    /\ TicketId(1, 1) \notin db_tickets
    /\ TicketId(1, 2) \in db_tickets
    /\ TicketId(2, 1) \in db_tickets


-----------------------------------------------------------------------------
(* Claims about the stored tickets, checked under SpecUpsert *)

RowsOf(id) == {r \in tickets : r.zendesk_ticket_id = id}

\* C11: after any sequence of upserts, by one run or by several in any order,
\* the table holds at most one row per external id, and the columns of set_
\* in that row are those of the upsert applied last to that id.
C11_UpsertIdempotent ==
    \A id \in TicketIds :
        /\ Cardinality(RowsOf(id)) <= 1
        /\ last_upsert[id] = <<>> => RowsOf(id) = {}
        /\ last_upsert[id] # <<>> =>
              /\ RowsOf(id) # {}
              /\ \A r \in RowsOf(id) : r.set_ = last_upsert[id][1].values.set_

\* a row written by one statement and overwritten by another: it kept the
\* organisation id of its insert and shows the set_ columns of the last upsert
C11_Witness ==
    \E id \in TicketIds :
        /\ last_upsert[id] # <<>>
        /\ \E r \in RowsOf(id) :
              /\ r.zendesk_org_id # last_upsert[id][1].values.zendesk_org_id
              /\ r.set_ = last_upsert[id][1].values.set_

-----------------------------------------------------------------------------
(* Claims about the SyncState rows, checked under SpecSync *)

\* the generator of the call has been run to its end: its last page was
\* empty or carried no next_page
PagesConsumed ==
    /\ pages_served # <<>>
    /\ Len(requested) = Len(pages_served)
    /\ \/ PageEmpty(Last(pages_served))
       \/ ~Last(pages_served).next_page

-----------------------------------------------------------------------------
(* Claims about the watermark, checked under SpecWatermark *)

\* the row of the table holds ticket t as it is upstream now
StoredCurrent(t) ==
    \E r \in tickets : r.zendesk_ticket_id = t /\ r.set_ = upstream[t]

\* C13: when a call completes with watermark W, every upstream update made
\* after the start of the call's window and at or before W has been fetched:
\* no update that lands during the call is outside both the call's results
\* and the next incremental window `updated after W`.
C13_WatermarkBoundary ==
    last_event = "returned" =>
        \A t \in UpstreamIds :
            (start_date[1] < upstream[t]
                /\ upstream[t] <= Last(sync_state).last_ticket_updated_at)
            => StoredCurrent(t)

-----------------------------------------------------------------------------
(* Claims about _find_matching_cluster, checked under SpecMatch *)

C16_Words(i) == ClusterWords(fm_clusters[i].cluster_name)
C16_Overlap(i) == Cardinality(IssueWords(fm_issue) \cap C16_Words(i))
C16_Size == Max(Cardinality(IssueWords(fm_issue)), 1)

\* C16: the result is the candidate whose score |issue words /\ name words| /
\* max(|issue words|, 1) is highest among the scores strictly above 0.3, the
\* first of them on a tie; there is no result when no score is above 0.3 (a
\* score of exactly 0.3 is not), and a cluster whose name has no words is
\* never the result.
C16_BestAboveThreshold ==
    fm_result # <<>> =>
        LET r == fm_result[1]
            cs == 1..Len(fm_clusters)
        IN  /\ r \in cs \cup {0}
            /\ r = 0 <=> \A i \in cs : ~(10 * C16_Overlap(i) > 3 * C16_Size)
            /\ r # 0 =>
                  /\ 10 * C16_Overlap(r) > 3 * C16_Size
                  /\ \A j \in cs : C16_Overlap(j) <= C16_Overlap(r)
                  /\ \A j \in 1..(r - 1) : C16_Overlap(j) < C16_Overlap(r)
                  /\ C16_Words(r) # {}

\* a candidate scoring exactly 3/10 and none above: no match
C16_Witness ==
    /\ fm_result = <<0>>
    /\ \E i \in 1..Len(fm_clusters) : 10 * C16_Overlap(i) = 3 * C16_Size

-----------------------------------------------------------------------------
(* Claims about cluster_issues, checked under SpecCluster *)

\* C14: every assignment made by a pass puts the issue on a cluster of the
\* issue's (category, subcategory) that is active; a cluster that is not
\* active is never chosen.
C14_SameTopicActive ==
    \A k \in 1..Len(assigned) :
        LET i == issues[assigned[k].issue]
            c == clusters[assigned[k].cluster]
        IN  /\ i.cluster_id = assigned[k].cluster
            /\ c.category = i.category
            /\ c.subcategory = i.subcategory
            /\ c.is_active

\* an issue whose summary matches the name of a deactivated cluster of its
\* own topic was given a new cluster
C14_Witness ==
    \E k \in 1..Len(assigned) :
        /\ ~assigned[k].matched
        /\ \E c \in 1..Len(clusters) :
              /\ ~clusters[c].is_active
              /\ Key(clusters[c]) = Key(issues[assigned[k].issue])
              /\ FindMatchingCluster(issues[assigned[k].issue].summary, <<clusters[c]>>) = 1

\* C15: while a group is processed, every cluster the pass created for that
\* group is among the candidates of the group's later issues; so
\* 'Clock-in button broken on Android' followed by 'Android app clock-in not
\* working' in the same group, the first getting a new cluster, end in that
\* one cluster with issue_count 2.
C15_NewClusterIsCandidate ==
    /\ cl_pc = "assign" =>
          \A k \in 1..Len(assigned) :
              (~assigned[k].matched /\ Key(clusters[assigned[k].cluster]) = cur_key)
              => \E j \in 1..Len(existing_clusters) :
                    existing_clusters[j] = assigned[k].cluster
    /\ \A k \in 1..(Len(assigned) - 1) :
          (/\ ~assigned[k].matched
           /\ issues[assigned[k].issue].summary = Summary1
           /\ issues[assigned[k + 1].issue].summary = Summary2
           /\ Key(issues[assigned[k].issue]) = Key(issues[assigned[k + 1].issue]))
          => /\ assigned[k + 1].matched
             /\ assigned[k + 1].cluster = assigned[k].cluster
             /\ assigned[k + 1].count_after = 2

\* the pass began with no cluster and ended with one cluster of two issues
C15_Witness ==
    /\ cl_pc = "done"
    /\ Len(clusters) = 1
    /\ Len(assigned) = 2
    /\ ~assigned[1].matched
    /\ issues[1].summary = Summary1
    /\ issues[2].summary = Summary2
    /\ clusters[1].issue_count = 2
    /\ issues[1].cluster_id = 1 /\ issues[2].cluster_id = 1

\* C17: a match sets the cluster's last_seen to the later of its previous
\* last_seen and the issue's extraction time; last_seen never moves back.
C17_LastSeenMonotonic ==
    \A k \in 1..Len(assigned) :
        assigned[k].matched =>
            /\ assigned[k].last_seen_after =
                  Max(assigned[k].last_seen_before,
                      issues[assigned[k].issue].extracted_at)
            /\ assigned[k].last_seen_after >= assigned[k].last_seen_before

\* the answers after which the claim says the placeholder name is kept
C18_Failed(kind) == kind \in {"invalid_json", "no_name", "null_name", "raised"}

\* C18: when the naming service answers with a malformed response or fails
\* for a placeholder cluster, the pass does not fail, the cluster keeps its
\* placeholder name, and the other clusters are still visited.
C18_PlaceholderKept ==
    /\ cl_pc # "raised"
    /\ \A k \in 1..Len(naming_log) :
          C18_Failed(naming_log[k].kind) =>
              /\ clusters[naming_log[k].cluster].cluster_name = naming_log[k].name_before
              /\ IsPlaceholder(clusters[naming_log[k].cluster].cluster_name)
    /\ cl_pc = "done" /\ cl_result # <<"returned", 0, 0>> =>
          \A c \in 1..Len(db_clusters) :
              IsPlaceholder(db_clusters[c].cluster_name) =>
                  \E k \in 1..Len(naming_log) : naming_log[k].cluster = c

-----------------------------------------------------------------------------
(* Claims about update_cluster_trends, checked under SpecTrend *)

IssuesIn(c, from, to) ==
    {i \in 1..Len(issues) :
        /\ issues[i].cluster_id = c
        /\ from <= issues[i].extracted_at
        /\ issues[i].extracted_at < to}

\* C19: after a pass at time now every active cluster has count_7d = the
\* number of its issues extracted in [now - 7d, now) and count_prior_7d = the
\* number extracted in [now - 14d, now - 7d); an issue dated at or after now,
\* or older than 14 days, is in neither count.
C19_Windows ==
    tr_pc = "done" =>
        \A c \in 1..Len(clusters) :
            clusters[c].is_active =>
                /\ clusters[c].count_7d =
                      Cardinality(IssuesIn(c, tr_now[1] - 7, tr_now[1]))
                /\ clusters[c].count_prior_7d =
                      Cardinality(IssuesIn(c, tr_now[1] - 14, tr_now[1] - 7))

\* C20: after a pass, an active cluster's trend_pct is
\* (count_7d - count_prior_7d) * 100 / count_prior_7d when count_prior_7d > 0,
\* 100 when count_prior_7d = 0 < count_7d, and 0 when both are 0; it is
\* never a division by zero.
C20_TrendFormula ==
    tr_pc = "done" =>
        \A c \in 1..Len(clusters) :
            clusters[c].is_active =>
                LET t == clusters[c].trend_pct
                    n == clusters[c].count_7d
                    p == clusters[c].count_prior_7d
                IN  /\ t # <<>>
                    /\ t[2] > 0
                    /\ p > 0 => t[1] * p = (n - p) * 100 * t[2]
                    /\ (p = 0 /\ n > 0) => t[1] = 100 * t[2]
                    /\ (p = 0 /\ n = 0) => t[1] = 0

\* a falling cluster, a cluster new this week and an untouched inactive one
C20_Witness ==
    /\ tr_pc = "done"
    /\ clusters[1].count_prior_7d = 2 /\ clusters[1].count_7d = 1
    /\ clusters[1].trend_pct = <<0 - 100, 2>>
    /\ ~clusters[2].is_active /\ clusters[2].trend_pct = <<>>

-----------------------------------------------------------------------------
(* Claims about the customer counts and the merge, checked under           *)
(* SpecCustomers and SpecMerge *)

\* C21: after update_unique_customer_counts, the unique_customers of every
\* active cluster is the number of distinct requester organization values
\* over the tickets of its issues, a NULL organization counting as one
\* value like any other (organizations A, B and one NULL give 3).
C21_NullCountsAsValue ==
    (mt_call.op = "update_unique_customer_counts" /\ mt_result = "None") =>
        \A c \in ClusterIds :
            mt_db.clusters[c].is_active =>
                mt_db.clusters[c].unique_customers = Cardinality(OrgsOf(mt_db.issues, c))


\* C22: after merge_clusters(A, B) has returned for two existing clusters A
\* and B, no issue references A, the issues that referenced A or B reference
\* B and every other issue is as it was, B.issue_count is the number of
\* issues that reference B, and A is still there with is_active false.
C22_MergeResult ==
    (mt_call.op = "merge_clusters" /\ mt_result = "True"
        /\ mt_call.source_id # mt_call.target_id) =>
        LET A == mt_call.source_id
            B == mt_call.target_id
            before == mt_call.before
        IN  /\ Referencing(mt_db.issues, A) = {}
            /\ Referencing(mt_db.issues, B) =
                  Referencing(before.issues, A) \cup Referencing(before.issues, B)
            /\ Len(mt_db.issues) = Len(before.issues)
            /\ \A i \in 1..Len(before.issues) :
                  before.issues[i].cluster_id \notin {A, B} =>
                      mt_db.issues[i] = before.issues[i]
            /\ mt_db.clusters[B].issue_count = Cardinality(Referencing(mt_db.issues, B))
            /\ DOMAIN mt_db.clusters = DOMAIN before.clusters
            /\ ~mt_db.clusters[A].is_active

C22_Witness ==
    /\ mt_call.op = "merge_clusters"
    /\ mt_result = "True"
    /\ mt_call.source_id # mt_call.target_id
    /\ Referencing(mt_call.before.issues, mt_call.source_id) # {}
    /\ Referencing(mt_call.before.issues, mt_call.target_id) # {}
    /\ mt_db.clusters[mt_call.target_id].issue_count = MaxMergeIssues

\* the rows a merge of source_id into target_id makes of the rows before
C23_Merged(before, source_id, target_id) ==
    LET iss == Reassign(before.issues, source_id, target_id)
    IN  Tables(iss, [Deactivate(before.clusters, source_id) EXCEPT
                         ![target_id].issue_count = Cardinality(Referencing(iss, target_id))])

\* C23: the three writes of merge_clusters are one atomic unit.  What is
\* committed is the rows the call found until its commit and all three
\* writes from then on; a call that failed has left the rows it found.  So
\* no transaction reads a source deactivated by the call that still has
\* issues, or a target with moved issues and a stale issue_count.
C23_Atomic ==
    mt_call.op = "merge_clusters" =>
        LET A == mt_call.source_id
            B == mt_call.target_id
            before == mt_call.before
        IN  /\ mt_pc # "idle" => mt_db = before
            /\ (mt_pc = "idle" /\ mt_result = "raised") =>
                  /\ mt_db = before
                  /\ Tables(mt_issues, mt_clusters) = before
            /\ (mt_pc = "idle" /\ mt_result = "True") => mt_db = C23_Merged(before, A, B)
            /\ (A # B /\ before.clusters[A].is_active /\ ~mt_db.clusters[A].is_active) =>
                  Referencing(mt_db.issues, A) = {}
            /\ (A # B /\ mt_db.issues # before.issues) =>
                  mt_db.clusters[B].issue_count = Cardinality(Referencing(mt_db.issues, B))

C23_Witness ==
    /\ mt_call.op = "merge_clusters"
    /\ mt_pc = "recounted"
    /\ mt_call.source_id # mt_call.target_id
    /\ mt_issues # mt_db.issues
    /\ mt_clusters # mt_db.clusters
    /\ mt_db = mt_call.before


-----------------------------------------------------------------------------
(* Claims about the task worker and the sync trigger, checked under        *)
(* SpecWorker and SpecTrigger *)

\* C24: on one BackgroundWorker at most one run_* call is in progress at any
\* time: a call that arrives while another has started and not finished
\* raises RuntimeError and starts no work, and a trigger endpoint answers
\* 400 then instead of scheduling a task.
C24_OneTaskAtATime ==
    /\ TaskCount(wk_running) <= 1
    /\ (Len(wk_log) = 3 /\ wk_log[1] = "trigger" /\ wk_log[3] = 200) =>
          TaskCount(wk_running) = 0


\* among the entries of tg_log before position k: the triggers accepted, the
\* runs ended and begun, and so the runs accepted and not yet ended
C25_Accepted(k) ==
    Cardinality({j \in 1..(k - 1) : tg_log[j][1] = "trigger" /\ tg_log[j][3] = "200"})
C25_Ended(k) ==
    Cardinality({j \in 1..(k - 1) : tg_log[j][1] = "run" /\ tg_log[j][3] # "begun"})
C25_Begun(k) ==
    Cardinality({j \in 1..(k - 1) : tg_log[j][1] = "run" /\ tg_log[j][3] = "begun"})
C25_InFlight(k) == C25_Accepted(k) - C25_Ended(k)

\* C25: at most one run triggered through POST /sync/trigger exists at any
\* time.  A trigger that arrives while an accepted run has not ended is
\* answered 409 and starts nothing; otherwise an invalid backfill_days is
\* answered 400 and leaves the flag unset, and any other trigger is accepted.
\* The flag is set from the acceptance, before the run is scheduled, until
\* the run ends, by returning or by raising.
C25_SingleTriggeredRun ==
    /\ tg_scheduled + tg_running <= 1
    /\ tg_scheduled + tg_running = C25_InFlight(Len(tg_log) + 1)
    /\ tg_running = C25_Begun(Len(tg_log) + 1) - C25_Ended(Len(tg_log) + 1)
    /\ sync_running <=> (tg_scheduled + tg_running = 1)
    /\ \A k \in 1..Len(tg_log) :
          tg_log[k][1] = "trigger" =>
              tg_log[k][3] = (IF C25_InFlight(k) > 0 THEN "409"
                              ELSE IF InvalidBackfill(tg_log[k][2]) THEN "400"
                              ELSE "200")
    /\ (tg_log # <<>> /\ Last(tg_log)[3] = "400") => ~sync_running

C25_Witness ==
    /\ Len(tg_log) = MaxEvents
    /\ tg_log[1] = <<"trigger", <<365>>, "200">>
    /\ tg_log[2][3] = "409"
    /\ tg_log[3][3] = "begun"
    /\ tg_log[4][3] = "failed"
    /\ tg_log[5] = <<"trigger", <<>>, "200">>
    /\ sync_running
    /\ tg_scheduled = 1


-----------------------------------------------------------------------------
(* Claims about the backoff of _request, checked under SpecRequest *)

RECURSIVE C26_Pow2(_)
C26_Pow2(n) == IF n = 0 THEN 1 ELSE 2 * C26_Pow2(n - 1)

\* a 5xx response or a network error
C26_IsError(resp) ==
    resp.kind = "request_error" \/ (resp.status >= 500 /\ resp.status < 600)

\* the retries caused by a 5xx response or a network error up to attempt i
C26_Errors(i) == Cardinality({j \in 1..i : C26_IsError(served[j])})

C26_Backoff(n) == Min(INITIAL_BACKOFF * C26_Pow2(n), MAX_BACKOFF)

\* C26: within one _request call the sleep before the n-th retry caused by a
\* 5xx response or a network error lasts min(INITIAL_BACKOFF * 2^(n-1),
\* MAX_BACKOFF) seconds, never more than MAX_BACKOFF; a 429 retry does not
\* advance the backoff, and a 429 without Retry-After sleeps for the
\* current backoff value.
C26_BackoffSchedule ==
    \A i \in 1..Len(sleeps) :
        IF C26_IsError(served[i])
        THEN /\ sleeps[i] = C26_Backoff(C26_Errors(i) - 1)
             /\ sleeps[i] <= MAX_BACKOFF
        ELSE /\ served[i].status = 429
             /\ served[i].retry_after = <<>> => sleeps[i] = C26_Backoff(C26_Errors(i))

C26_Witness ==
    /\ Len(sleeps) = MAX_RETRIES
    /\ served[1].status = 500
    /\ served[2].status = 429 /\ served[2].retry_after = <<>>
    /\ served[3].kind = "request_error"
    /\ sleeps = <<1, 2, 2>>


-----------------------------------------------------------------------------
(* Claims about the exits of sync_tickets, checked under SpecSync and      *)
(* SpecPage *)

\* C27: a sync_tickets call that passed the guard releases it on every exit:
\* once it has returned or raised, is_running is false and current_progress
\* is None, so a call is rejected only while an earlier call is in flight.
C27_GuardReleased ==
    /\ sync_pc = "idle" => (~is_running /\ current_progress = <<"None">>)
    /\ is_running => sync_pc # "idle"
    /\ last_event = "rejected" => sync_pc # "idle"

C27_Witness ==
    /\ runs = MaxRuns
    /\ last_event = "search_failed"
    /\ sync_result[1] = "raised"
    /\ requested = <<1, 2>>
    /\ ~is_running
    /\ current_progress = <<"None">>


\* the entries of ticket_log whose statement ran
ExecutedEntries == {k \in 1..Len(ticket_log) : ticket_log[k].statement = "executed"}

\* C28: when the requester lookup or the organization lookup of a ticket
\* fails, the ticket is upserted all the same, with requester_email or
\* requester_org_name null, the failure is not counted in errors, and the
\* run goes on with the page.
C28_LookupFailureTolerated ==
    /\ tickets_synced = Cardinality(ExecutedEntries)
    /\ errors = Len(ticket_log) - Cardinality(ExecutedEntries)
    /\ last_event = "ticket" =>
          LET entry == Last(ticket_log)
          IN  /\ entry.statement = "executed"
              /\ pending_rows[entry.id] =
                    Row(IF entry.requester = "failed" THEN "None" ELSE "email",
                        IF entry.organization = "failed" THEN "None" ELSE "name")
              /\ sync_pc = "batch"
              /\ is_running

C28_Witness ==
    /\ last_event = "ticket"
    /\ Last(ticket_log) = LogEntry(1, "failed", "failed", "executed")
    /\ stored_rows[1] = Row("email", "name")
    /\ pending_rows[1] = Row("None", "None")
    /\ tickets_synced = 1
    /\ errors = 0
    /\ batch # <<>>


\* C29: a ZendeskRateLimitError or ZendeskAPIError raised while a search
\* page is fetched propagates out of sync_tickets and aborts the run with
\* no checkpoint written; raised while one ticket is fetched it is counted
\* in errors and the run goes on; and, the guard apart, a call that raises
\* raises one of these search-page errors.
C29_OnlySearchErrorsAbort ==
    /\ last_event = "search_failed" =>
          /\ sync_result[1] = "raised"
          /\ sync_state = state_at_start
          /\ sync_pc = "idle"
    /\ last_event = "fetch_failed" =>
          /\ sync_result = <<"none">>
          /\ sync_pc = "batch"
          /\ errors >= 1
    /\ sync_result[1] = "raised" =>
          sync_result[2] \in {"ZendeskAPIError", "ZendeskRateLimitError"}

\* C30: the failure of one ticket's store write is isolated.  Once a page is
\* committed, and so when the call returns, every ticket whose statement
\* ran, the tickets counted in tickets_synced, has its row stored.
C30_CountedAreStored ==
    (last_event = "commit" \/ sync_result[1] = "returned") =>
        /\ tickets_synced = Cardinality(ExecutedEntries)
        /\ \A k \in ExecutedEntries : stored_rows[ticket_log[k].id] # NoRow

-----------------------------------------------------------------------------
(* C31: a cluster_issues pass changes the cluster of unclustered issues    *)
(* only.  Step by step: an issue that has a cluster keeps its row and no   *)
(* issue row appears or disappears; each step that gives clusters to k     *)
(* issues adds k to issues_clustered (which is 0 while the pass has not    *)
(* started), and each step that creates k clusters adds k to               *)
(* new_clusters_created; the step that returns leaves no issue without a   *)
(* cluster, every cluster_id naming one existing cluster, and returns the  *)
(* two counters, so that issues_clustered is the number of issues that     *)
(* were unclustered at the start and new_clusters_created the number of    *)
(* clusters created; a pass that finds no unclustered issue returns 0 and  *)
(* 0 and changes no row.                                                   *)
C31_NoCluster(rows) == {i \in 1..Len(rows) : rows[i].cluster_id = 0}

C31_Returns == cl_result[1] # "returned" /\ cl_result'[1] = "returned"

C31_PassFrame ==
    [][/\ Len(issues') = Len(issues)
       /\ \A i \in 1..Len(issues) : issues[i].cluster_id # 0 => issues'[i] = issues[i]
       /\ cl_pc = "idle" => issues_clustered = 0 /\ new_clusters_created = 0
       /\ issues_clustered' - issues_clustered
            = Cardinality(C31_NoCluster(issues)) - Cardinality(C31_NoCluster(issues'))
       /\ new_clusters_created' - new_clusters_created = Len(clusters') - Len(clusters)
       /\ C31_Returns =>
            /\ C31_NoCluster(issues') = {}
            /\ \A i \in 1..Len(issues') : issues'[i].cluster_id \in 1..Len(clusters')
            /\ cl_result' = <<"returned", issues_clustered', new_clusters_created'>>
       /\ cl_pc = "idle" /\ C31_NoCluster(issues) = {} =>
            /\ cl_result' = <<"returned", 0, 0>>
            /\ issues' = issues
            /\ clusters' = clusters
            /\ db_clusters' = db_clusters
      ]_vars

\* a pass has returned after it matched one issue and created a cluster for
\* another, next to an issue that had its cluster before the pass
C31_Witness ==
    /\ cl_result[1] = "returned"
    /\ cl_result[2] >= 2
    /\ cl_result[3] >= 1
    /\ \E a \in 1..Len(assigned) : assigned[a].matched
    /\ \E i \in 1..Len(issues) : \A a \in 1..Len(assigned) : assigned[a].issue # i

-----------------------------------------------------------------------------
(* C32: in the naming pass a cluster that bears a placeholder name is sent *)
(* to the naming service if and only if it has at least 2 member issues;   *)
(* the issues sent are at most NAMING_LIMIT and no member left out was     *)
(* extracted later than a member sent; a placeholder cluster that was not  *)
(* sent keeps its placeholder name.                                        *)
C32_Sent(e) == e.kind # "skipped"

C32_MostRecent(e) ==
    \A i \in e.sent : \A j \in Members(e.cluster) \ e.sent :
        issues[i].extracted_at >= issues[j].extracted_at

C32_NamingSample ==
    \A k \in 1..Len(naming_log) :
        LET e == naming_log[k]
        IN  /\ IsPlaceholder(e.name_before)
            /\ C32_Sent(e) <=> Cardinality(Members(e.cluster)) >= 2
            /\ C32_Sent(e) =>
                  /\ e.sent \subseteq Members(e.cluster)
                  /\ Cardinality(e.sent) <= NAMING_LIMIT
                  /\ Cardinality(e.sent) = Min(Cardinality(Members(e.cluster)), NAMING_LIMIT)
                  /\ C32_MostRecent(e)
            /\ ~C32_Sent(e) =>
                  /\ e.sent = {}
                  /\ clusters[e.cluster].cluster_name = e.name_before

-----------------------------------------------------------------------------
(* C33: the request budget holds over a sliding window: in every interval  *)
(* of WINDOW consecutive seconds, wherever it begins, at most RATE_LIMIT   *)
(* requests pass the throttle, an interval that spans a window reset       *)
(* included.                                                               *)
C33_SlidingBudget == sw_count <= RATE_LIMIT

-----------------------------------------------------------------------------
(* C34: when merge_clusters(A, B) commits while a cluster_issues pass that *)
(* has loaded A as a candidate is in progress in another transaction, then *)
(* once both have committed no issue the pass assigned references an       *)
(* inactive cluster, and B.issue_count is the number of issues that        *)
(* reference B.                                                            *)
C34_BothCommitted == rc_merged # <<>> /\ cl_pc = "done"

C34_MergeDuringPass ==
    C34_BothCommitted =>
        /\ \A a \in 1..Len(assigned) :
              rc_clusters[rc_issues[assigned[a].issue].cluster_id].is_active
        /\ rc_clusters[rc_merged[2]].issue_count
              = Cardinality(Referencing(rc_issues, rc_merged[2]))

-----------------------------------------------------------------------------
(* C35: whatever mix of 429 responses, 5xx responses and network errors    *)
(* the attempts of one _request call meet, in any order, the call makes at *)
(* most MAX_RETRIES + 1 attempts, because each of these failures takes one *)
(* retry from the same counter; the call always ends, with a returned      *)
(* result or with ZendeskAPIError or ZendeskRateLimitError; when it ends   *)
(* because no retry is left, the error is ZendeskRateLimitError if the     *)
(* last failure was a 429 and ZendeskAPIError otherwise.                   *)
C35_Retried(resp) == resp.status = 429 \/ C26_IsError(resp)

C35_Ended == req_pc \in {"returned", "raised"}

-----------------------------------------------------------------------------
(* C36: when several coroutines call _check_rate_limit on one client       *)
(* concurrently, their admissions are serialized: no two calls find the    *)
(* same value of the request counter in the same window, the counter never *)
(* exceeds RATE_LIMIT, at most one coroutine is inside the lock, and while *)
(* a coroutine sleeps until the window reset no other coroutine is let     *)
(* through or touches the counter.                                         *)
C36_Inside == {c \in Callers : co_pc[c] \in {"holding", "sleeping"}}

C36_Serialized ==
    /\ [](/\ request_count <= RATE_LIMIT
          /\ Cardinality(C36_Inside) <= 1
          /\ C36_Inside = {c \in Callers : lock_holder = c}
          /\ \A i, j \in 1..Len(co_log) :
                co_log[i].window = co_log[j].window /\ co_log[i].found = co_log[j].found
                   => i = j)
    /\ [][\A c \in Callers :
            co_pc[c] = "sleeping" =>
               /\ \A d \in Callers \ {c} : co_pc'[d] = "out" => co_pc[d] = "out"
               /\ co_pc'[c] = "sleeping" =>
                     request_count' = request_count /\ co_log' = co_log]_vars

\* one coroutine sleeps until the window reset while the other waits for the lock
C36_Witness ==
    /\ co_pc["get_ticket"] = "sleeping"
    /\ co_pc["get_ticket_comments"] = "waiting"
    /\ request_count = RATE_LIMIT

-----------------------------------------------------------------------------
(* Claims about sequences of calls, checked under SpecOps *)

\* no call of cluster_issues is in progress
OpsAtRest == cl_pc \in {"idle", "done", "raised"}

\* C37: after any sequence of cluster_issues and merge_clusters calls run one
\* at a time, from a store where it holds, the issue_count of every active
\* cluster is the number of issues whose cluster_id references the cluster.
C37_CountsExact ==
    OpsAtRest =>
        \A c \in 1..Len(clusters) :
            clusters[c].is_active =>
                clusters[c].issue_count = Cardinality(Referencing(issues, c))

\* a merge into a cluster that a pass had grown, then a further pass
C37_Witness ==
    /\ OpsAtRest
    /\ Len(ops_log) = MaxOps
    /\ ops_log[1].op = "cluster_issues"
    /\ ops_log[2].op = "merge_clusters"
    /\ ops_log[2].source_id # ops_log[2].target_id
    /\ clusters[ops_log[2].target_id].is_active
    /\ clusters[ops_log[2].target_id].issue_count >= 3

\* C38: after any sequence of cluster_issues and merge_clusters calls, for any
\* source and target (a source equal to the target and a target deactivated by
\* an earlier merge included), no issue references a cluster that is not active.
C38_NoInactiveReference ==
    OpsAtRest =>
        \A i \in 1..Len(issues) :
            issues[i].cluster_id # 0 => clusters[issues[i].cluster_id].is_active

\* C39: after any sequence of cluster_issues and merge_clusters calls, every
\* issue that has a cluster has the (category, subcategory) of that cluster.
C39_SameTopic ==
    OpsAtRest =>
        \A i \in 1..Len(issues) :
            issues[i].cluster_id # 0 => Key(issues[i]) = Key(clusters[issues[i].cluster_id])

-----------------------------------------------------------------------------
(* Claim about the range of trend_pct, checked under SpecRange *)

\* C40: for every pair of window counts, the trend_pct that
\* update_cluster_trends computes has a magnitude of at most 999.99, the
\* range of the trend_pct column, so the pass never fails to store a value
\* it computed.
C40_TrendInRange ==
    /\ tr_pc # "raised"
    /\ \A c \in 1..Len(clusters) :
          LET t == clusters[c].trend_pct
          IN  t # <<>> => Abs(t[1]) * 100 <= 99999 * t[2]

=============================================================================
